---- MODULE Spec2Model ----
(***************************************************************************)
(* Model of the RL training engine of fruit-merge-ai:                      *)
(*   - GameAPI (game/rl/game-api.js, step-based variant): the action       *)
(*     scheduler, its cooldown counters, timers and manual simulation loop *)
(*   - GameEnvironment.step (game/rl/game-environment.js)                  *)
(*   - DQNAgent replay buffer (remember / replay / dispose)                *)
(*                                                                         *)
(* JavaScript is single threaded: every handler below runs to completion,  *)
(* so one TLA+ action is one handler (a public call, a timer callback, a   *)
(* runner frame) including every synchronous call it makes.                *)
(***************************************************************************)
EXTENDS Integers, Sequences, FiniteSets, TLC

\* ------------------------------------------------------------------ bounds
\* Spec: every scheduler operation, both modes
MaxActions == 3
MaxResets == 1
MaxHooks == 1
MaxSimulationStep == 20
MaxRunnerStep == 1
\* SpecAccel: the scheduler in accelerated mode
MaxAccelActions == 2
MaxAccelResets == 2
MaxAccelStep == 60
\* SpecEnv: GameEnvironment.step calls.
MaxEnvSteps == 3

\* ------------------------------------------------------- program constants
DROP_COOLDOWN_STEPS == 25
RESET_COOLDOWN_STEPS == 10
SIMULATION_BATCH_SIZE == 10
actionSize == 20

VARIABLES
    api,      \* the GameAPI object's fields
    driver,   \* the game instance / physics engine the API is bound to
    timers,   \* host scheduler: pending setTimeout callbacks, in set order
    hist,     \* history of promises: who was enqueued, released, resolved
    outcome,  \* how the last public call ended: "ok" or "NotInitialized"
    agent,    \* the DQNAgent object's fields
    alog,     \* history of the agent's experiences
    sample,   \* one sampled experience of a replay() and the target built for it
    ctl,      \* the RLController object's fields
    loops,    \* the controller's async calls in flight, each at its await
    store,    \* IndexedDB / localStorage: checkpoint, metadata, statistics
    clog      \* history of the controller's runs

schedVars == <<api, driver, timers, hist, outcome>>
agentVars == <<agent, alog>>
ctlVars == <<ctl, loops, store, clog>>
vars == <<api, driver, timers, hist, outcome, agent, alog, sample, ctl, loops, store, clog>>
\* What the scheduler's steps, and the agent's, leave alone.
nonSchedVars == <<agent, alog, sample, ctl, loops, store, clog>>
nonAgentVars == <<api, driver, timers, hist, outcome, sample, ctl, loops, store, clog>>

Max(x, y) == IF x >= y THEN x ELSE y
ActionIds == 1..Max(Max(MaxActions, MaxAccelActions), MaxEnvSteps)
ResetIds == 1..Max(MaxResets, MaxAccelResets)

\* The exploration limits of a specification.
Limits == [actions |-> MaxActions, resets |-> MaxResets, step |-> MaxSimulationStep]
AccelLimits ==
    [actions |-> MaxAccelActions, resets |-> MaxAccelResets, step |-> MaxAccelStep]

\* Positions are kept as numerators over 2*actionSize: (index + 0.5)/actionSize
\* is (2*index + 1)/(2*actionSize).
Positions == {actionSize}

\* History counters (never read by the program) count only while the promise
\* they belong to is pending, and saturate.
GhostCap == DROP_COOLDOWN_STEPS + 1
Sat(n) == IF n < GhostCap THEN n + 1 ELSE n
StepArmed(w) ==
    /\ w.api.actionResolveCallback # 0
    /\ w.h.arm[w.api.actionResolveCallback] = "steps"
ResetArmed(w) == w.api.resetResolveCallback # 0

\* ----------------------------------------------------------- construction
GameAPIConstructor ==
    [ gameInstance          |-> FALSE,   \* null until init()
      fastForwardMode       |-> FALSE,
      dropCooldownCounter   |-> 0,
      resetCooldownCounter  |-> 0,
      actionQueue           |-> << >>,
      isExecutingAction     |-> FALSE,
      actionResolveCallback |-> 0,       \* 0 is null, else the action it resolves
      resetResolveCallback  |-> 0,       \* 0 is null, else the reset it resolves
      renderStopped         |-> FALSE,
      runnerStopped         |-> FALSE,
      simulationStep        |-> 0,
      manualLoopRunning     |-> FALSE,
      manualLoopTimeoutId   |-> FALSE,   \* TRUE while a setTimeout(runLoop, 0) is pending
      lastProcessedStep     |-> -1 ]

DriverInit ==
    [ hooks     |-> 0,        \* afterUpdate listeners on the current engine
      runnerOn  |-> TRUE,     \* Matter Runner driving the engine in real time
      renderOn  |-> TRUE,     \* Matter Render running
      dropped   |-> << >>,    \* actions released by moveFruit + dropFruit, in order
      restarts  |-> 0 ]       \* handleRestart calls

TimersInit == << >>

HistInit ==
    [ enqueued     |-> 0,          \* executeAction calls that returned a promise
      resolved     |-> << >>,      \* action promises resolved, in order
      relTrigger   |-> [a \in ActionIds |-> -1],  \* -1 not released, 0 released by its
                                                  \* own executeAction, else the action
                                                  \* whose resolution released it
      arm          |-> [a \in ActionIds |-> "none"], \* "steps" or "timer"
      resBy        |-> [a \in ActionIds |-> "none"], \* "step" or "timer"
      resNotifs    |-> [a \in ActionIds |-> -1],  \* notifications since arming, at resolution
      resTicks     |-> [a \in ActionIds |-> -1],  \* physics ticks since arming, at resolution
      resStep      |-> [a \in ActionIds |-> -1],  \* simulationStep at resolution
      enqAt        |-> [a \in ActionIds |-> -1],  \* promises resolved when a was enqueued
      armNotifs    |-> 0,          \* onSimulationStep calls since the drop counter was armed
      armTicks     |-> 0,          \* Engine.update calls since the drop counter was armed
      resets       |-> 0,          \* resetGame calls that returned a promise
      resetResolved|-> << >>,      \* reset promises resolved, in order
      resetArm     |-> [r \in ResetIds |-> "none"],
      resetResNotifs |-> [r \in ResetIds |-> -1],
      resetNotifs  |-> 0,          \* onSimulationStep calls since the reset counter was armed
      resetQueueLen|-> [r \in ResetIds |-> -1],  \* queue length right after reset r
      resetCounterAt |-> [r \in ResetIds |-> -1], \* resetCooldownCounter right after reset r
      resetRestarts|-> [r \in ResetIds |-> 0],   \* handleRestart calls made by reset r
      stepForwarded|-> {} ]        \* positions GameEnvironment.step handed on

\* The world a handler runs in.
World == [api |-> api, drv |-> driver, tm |-> timers, h |-> hist]

Commit(w) ==
    /\ api' = w.api
    /\ driver' = w.drv
    /\ timers' = w.tm
    /\ hist' = w.h

\* ------------------------------------------------------------------ helpers
Range(seq) == {seq[i] : i \in 1..Len(seq)}
Count(seq, x) == Cardinality({i \in 1..Len(seq) : seq[i] = x})
Increasing(seq) == \A i, j \in 1..Len(seq) : i < j => seq[i] < seq[j]
Enqueued == 1..hist.enqueued
Resolved(a) == a \in Range(hist.resolved)
Released(a) == a \in Range(driver.dropped)
Queued(a) == \E i \in 1..Len(api.actionQueue) : api.actionQueue[i].id = a
ResetsCalled == 1..hist.resets
ResetResolved(r) == r \in Range(hist.resetResolved)

\* ------------------------------------------------------------ the scheduler

\* Faulty variant of ProcessActionQueue: takes the newest queued action (pop, not shift).
ProcessActionQueueLifo(w, trigger) ==
    IF w.api.isExecutingAction \/ Len(w.api.actionQueue) = 0
    THEN w
    ELSE
        LET n    == Len(w.api.actionQueue)
            a    == w.api.actionQueue[n].id
            ff   == w.api.fastForwardMode
        IN [ w EXCEPT
               !.api.isExecutingAction = TRUE,
               !.api.actionQueue = SubSeq(w.api.actionQueue, 1, n - 1),
               !.drv.dropped = Append(w.drv.dropped, a),
               !.api.actionResolveCallback = a,
               !.api.dropCooldownCounter =
                   IF ff THEN DROP_COOLDOWN_STEPS ELSE w.api.dropCooldownCounter,
               !.tm = IF ff THEN w.tm
                      ELSE Append(w.tm, [kind |-> "drop", id |-> a]),
               !.h.relTrigger[a] = trigger,
               !.h.arm[a] = IF ff THEN "steps" ELSE "timer",
               !.h.armNotifs = IF ff THEN 0 ELSE w.h.armNotifs,
               !.h.armTicks = IF ff THEN 0 ELSE w.h.armTicks ]

\* processActionQueue(): `trigger` is 0 when called from executeAction, else the
\* action whose resolve callback is calling it.
ProcessActionQueue(w, trigger) ==
    IF w.api.isExecutingAction \/ Len(w.api.actionQueue) = 0
    THEN w
    ELSE
        LET head == Head(w.api.actionQueue)     \* actionQueue.shift()
            a    == head.id
            ff   == w.api.fastForwardMode
        IN [ w EXCEPT
               !.api.isExecutingAction = TRUE,
               !.api.actionQueue = Tail(w.api.actionQueue),
               \* game.moveFruit(targetX, true); game.dropFruit()
               !.drv.dropped = Append(w.drv.dropped, a),
               !.api.actionResolveCallback = a,
               !.api.dropCooldownCounter =
                   IF ff THEN DROP_COOLDOWN_STEPS ELSE w.api.dropCooldownCounter,
               \* setTimeout(() => { if (this.actionResolveCallback) ... }, 800)
               !.tm = IF ff THEN w.tm
                      ELSE Append(w.tm, [kind |-> "drop", id |-> a]),
               !.h.relTrigger[a] = trigger,
               !.h.arm[a] = IF ff THEN "steps" ELSE "timer",
               !.h.armNotifs = IF ff THEN 0 ELSE w.h.armNotifs,
               !.h.armTicks = IF ff THEN 0 ELSE w.h.armTicks ]

\* Faulty variant of ActionResolveCallback: the closure clears the callback but
\* leaves isExecutingAction set.
ActionResolveCallbackKeepsFlag(w, by) ==
    LET a  == w.api.actionResolveCallback
        w1 == [ w EXCEPT
                  !.api.actionResolveCallback = 0,
                  !.h.resolved = Append(w.h.resolved, a),
                  !.h.resBy[a] = by,
                  !.h.resNotifs[a] = w.h.armNotifs,
                  !.h.resTicks[a] = w.h.armTicks,
                  !.h.resStep[a] = w.api.simulationStep,
                  !.h.armNotifs = 0,
                  !.h.armTicks = 0 ]
    IN ProcessActionQueue(w1, a)

\* The closure stored in actionResolveCallback, called by the step handler
\* (by = "step") or by an 800 ms timer (by = "timer").
ActionResolveCallback(w, by) ==
    LET a  == w.api.actionResolveCallback
        w1 == [ w EXCEPT
                  !.api.actionResolveCallback = 0,
                  !.api.isExecutingAction = FALSE,
                  \* resolve(result)
                  !.h.resolved = Append(w.h.resolved, a),
                  !.h.resBy[a] = by,
                  !.h.resNotifs[a] = w.h.armNotifs,
                  !.h.resTicks[a] = w.h.armTicks,
                  !.h.resStep[a] = w.api.simulationStep,
                  !.h.armNotifs = 0,
                  !.h.armTicks = 0 ]
    IN ProcessActionQueue(w1, a)

ResolveCurrentAction(w, by) ==
    IF w.api.actionResolveCallback # 0 THEN ActionResolveCallback(w, by) ELSE w

\* Faulty variant of StepDropCooldown: resolves one notification early.
StepDropCooldownEarly(w) ==
    IF w.api.dropCooldownCounter > 0
    THEN LET c  == w.api.dropCooldownCounter - 1
             w1 == [w EXCEPT !.api.dropCooldownCounter = c]
         IN IF c <= 1 /\ w1.api.actionResolveCallback # 0
            THEN ResolveCurrentAction(w1, "step")
            ELSE w1
    ELSE w

\* The drop-cooldown half of onSimulationStep.
StepDropCooldown(w) ==
    IF w.api.dropCooldownCounter > 0
    THEN LET c  == w.api.dropCooldownCounter - 1
             w1 == [w EXCEPT !.api.dropCooldownCounter = c]
         IN IF c = 0 /\ w1.api.actionResolveCallback # 0
            THEN ResolveCurrentAction(w1, "step")
            ELSE w1
    ELSE w

\* Faulty variant of StepResetCooldown: resolves one notification early.
StepResetCooldownEarly(w) ==
    IF w.api.resetCooldownCounter > 0
    THEN LET c  == w.api.resetCooldownCounter - 1
             w1 == [w EXCEPT !.api.resetCooldownCounter = c]
             r  == w1.api.resetResolveCallback
         IN IF c <= 1 /\ r # 0
            THEN [ w1 EXCEPT
                     !.api.resetResolveCallback = 0,
                     !.h.resetResolved = Append(w1.h.resetResolved, r),
                     !.h.resetResNotifs[r] = w1.h.resetNotifs,
                     !.h.resetNotifs = 0 ]
            ELSE w1
    ELSE w

\* The reset-cooldown half of onSimulationStep.
StepResetCooldown(w) ==
    IF w.api.resetCooldownCounter > 0
    THEN LET c  == w.api.resetCooldownCounter - 1
             w1 == [w EXCEPT !.api.resetCooldownCounter = c]
             r  == w1.api.resetResolveCallback
         IN IF c = 0 /\ r # 0
            THEN [ w1 EXCEPT
                     !.api.resetResolveCallback = 0,
                     !.h.resetResolved = Append(w1.h.resetResolved, r),
                     !.h.resetResNotifs[r] = w1.h.resetNotifs,
                     !.h.resetNotifs = 0 ]
            ELSE w1
    ELSE w

\* onSimulationStep(): one notification, from the afterUpdate hook or from the
\* manual loop.
OnSimulationStep(w) ==
    LET step == w.api.simulationStep + 1
        w0   == [ w EXCEPT
                    !.api.simulationStep = step,
                    !.h.armNotifs = IF StepArmed(w) THEN Sat(w.h.armNotifs)
                                    ELSE w.h.armNotifs,
                    !.h.resetNotifs = IF ResetArmed(w) THEN Sat(w.h.resetNotifs)
                                      ELSE w.h.resetNotifs ]
    IN IF step = w.api.lastProcessedStep
       THEN w0
       ELSE StepResetCooldown(
                StepDropCooldown([w0 EXCEPT !.api.lastProcessedStep = step]))

RECURSIVE FireAfterUpdate(_, _)
\* Matter's Events.trigger(engine, 'afterUpdate'): every listener registered on
\* the current engine by init() calls onSimulationStep().
FireAfterUpdate(w, n) ==
    IF n = 0 THEN w ELSE FireAfterUpdate(OnSimulationStep(w), n - 1)

\* Matter.Engine.update(engine, delta): one physics tick, then the afterUpdate
\* event.
EngineUpdate(w) ==
    FireAfterUpdate([w EXCEPT !.h.armTicks = IF StepArmed(w) THEN Sat(w.h.armTicks)
                                             ELSE w.h.armTicks],
                    w.drv.hooks)

RECURSIVE RunBatch(_, _)
\* The for loop of runLoop: Engine.update, then onSimulationStep, i times.
RunBatch(w, i) ==
    IF i = 0 THEN w ELSE RunBatch(OnSimulationStep(EngineUpdate(w)), i - 1)

\* runLoop(), the body of the manual simulation loop.
RunLoop(w) ==
    IF ~w.api.manualLoopRunning \/ ~w.api.fastForwardMode
    THEN w
    ELSE IF ~w.api.gameInstance
    THEN [ w EXCEPT !.api.manualLoopRunning = FALSE,
                    !.api.manualLoopTimeoutId = FALSE ]
    ELSE [ RunBatch(w, SIMULATION_BATCH_SIZE) EXCEPT
             \* setTimeout(runLoop, 0)
             !.api.manualLoopTimeoutId = TRUE ]

StartManualSimulationLoop(w) ==
    IF w.api.manualLoopRunning THEN w
    ELSE IF ~w.api.gameInstance THEN w
    ELSE RunLoop([ w EXCEPT
                     \* Runner.stop(runner)
                     !.drv.runnerOn = IF ~w.api.runnerStopped THEN FALSE
                                      ELSE w.drv.runnerOn,
                     !.api.runnerStopped = TRUE,
                     !.api.manualLoopRunning = TRUE ])

StopManualSimulationLoop(w) ==
    [ w EXCEPT !.api.manualLoopRunning = FALSE,
               \* clearTimeout(manualLoopTimeoutId)
               !.api.manualLoopTimeoutId = FALSE ]

\* Notifications a handler would issue, used only to keep simulationStep bounded.
BatchNotifications == SIMULATION_BATCH_SIZE * (driver.hooks + 1)
StepRoom(L, n) == api.simulationStep + n <= L.step

\* ---------------------------------------------------------- public operations

\* init(gameInstance): binds the instance, registers an afterUpdate listener on
\* its engine and, when fast-forward mode is already on, restarts the manual loop.
InitGame(L) ==
    /\ driver.hooks < MaxHooks
    /\ api.fastForwardMode => StepRoom(L, SIMULATION_BATCH_SIZE * (driver.hooks + 2))
    /\ LET w1 == [ World EXCEPT !.api.gameInstance = TRUE,
                                !.drv.hooks = driver.hooks + 1 ]
       IN Commit(IF w1.api.fastForwardMode
                 THEN StartManualSimulationLoop(StopManualSimulationLoop(w1))
                 ELSE w1)
    /\ outcome' = "ok"
    /\ UNCHANGED nonSchedVars

\* getGameState(): read only; throws before init().
GetGameState ==
    /\ outcome' = IF api.gameInstance THEN "ok" ELSE "NotInitialized"
    /\ UNCHANGED <<api, driver, timers, hist>>
    /\ UNCHANGED nonSchedVars

\* The promise executor of executeAction: push {position, resolve}, then
\* processActionQueue().
EnqueueAction(w, position) ==
    LET a  == w.h.enqueued + 1
        w1 == [ w EXCEPT
                  !.h.enqueued = a,
                  !.h.enqAt[a] = Len(w.h.resolved),
                  !.api.actionQueue =
                      Append(w.api.actionQueue, [id |-> a, position |-> position]) ]
    IN ProcessActionQueue(w1, 0)

\* Faulty variant of ExecuteAction: the not-initialized check is missing.
ExecuteActionUnchecked(L, position) ==
    /\ hist.enqueued < L.actions
    /\ Commit(EnqueueAction(World, position))
    /\ outcome' = "ok"
    /\ UNCHANGED nonSchedVars

\* executeAction(position): the promise executor runs synchronously.
ExecuteAction(L, position) ==
    IF ~api.gameInstance
    THEN /\ outcome' = "NotInitialized"
         /\ UNCHANGED <<api, driver, timers, hist>>
         /\ UNCHANGED nonSchedVars
    ELSE /\ hist.enqueued < L.actions
         /\ Commit(EnqueueAction(World, position))
         /\ outcome' = "ok"
         /\ UNCHANGED nonSchedVars

\* GameEnvironment.step: position = (action + 0.5) / actionSize, kept as the
\* numerator over 2 * actionSize.
StepPosition(action) == 2 * action + 1

\* GameEnvironment.step(action) up to its await: the position is computed and
\* handed to executeAction, whatever the index.
EnvStep(L, action) ==
    IF ~api.gameInstance
    THEN /\ outcome' = "NotInitialized"
         /\ UNCHANGED <<api, driver, timers, hist>>
         /\ UNCHANGED nonSchedVars
    ELSE /\ hist.enqueued < L.actions
         /\ Commit(EnqueueAction(
                     [World EXCEPT !.h.stepForwarded = @ \cup {StepPosition(action)}],
                     StepPosition(action)))
         /\ outcome' = "ok"
         /\ UNCHANGED nonSchedVars

\* game.handleRestart(), a call into the driver; whether the driver builds a new
\* physics engine (one without this API's listener) is the driver's business.
HandleRestart(w, newEngine) ==
    [ w EXCEPT !.drv.restarts = w.drv.restarts + 1,
               !.drv.hooks = IF newEngine THEN 0 ELSE w.drv.hooks ]

\* The body of resetGame() on a bound driver, up to the returned promise.
ResetGameCall(w, newEngine) ==
    LET r  == w.h.resets + 1
        w1 == [ w EXCEPT
                  !.h.resets = r,
                  !.h.armNotifs = 0,
                  !.h.armTicks = 0,
                  !.h.resetNotifs = 0,
                  !.api.actionQueue = << >>,
                  !.api.isExecutingAction = FALSE,
                  !.api.actionResolveCallback = 0,
                  !.api.resetResolveCallback = 0 ]
        w2 == HandleRestart(w1, newEngine)
        w3 == [ w2 EXCEPT
                  !.h.resetQueueLen[r] = Len(w2.api.actionQueue),
                  !.h.resetRestarts[r] = w2.drv.restarts - w.drv.restarts ]
    IN IF w3.api.fastForwardMode
       THEN [ w3 EXCEPT
                !.api.resetResolveCallback = r,
                !.api.resetCooldownCounter = RESET_COOLDOWN_STEPS,
                !.h.resetCounterAt[r] = RESET_COOLDOWN_STEPS,
                !.h.resetArm[r] = "steps",
                !.h.resetNotifs = 0 ]
       ELSE [ w3 EXCEPT
                \* setTimeout(() => resolve(), 200)
                !.tm = Append(w3.tm, [kind |-> "reset", id |-> r]),
                !.h.resetArm[r] = "timer" ]

\* resetGame()
ResetGame(L, newEngine) ==
    IF ~api.gameInstance
    THEN /\ outcome' = "NotInitialized"
         /\ UNCHANGED <<api, driver, timers, hist>>
         /\ UNCHANGED nonSchedVars
    ELSE /\ hist.resets < L.resets
         /\ Commit(ResetGameCall(World, newEngine))
         /\ outcome' = "ok"
         /\ UNCHANGED nonSchedVars

\* isGameOver(): read only; returns false before init().
IsGameOver ==
    /\ outcome' = "ok"
    /\ UNCHANGED <<api, driver, timers, hist>>
    /\ UNCHANGED nonSchedVars

\* setFastForwardMode(enabled)
SetFastForwardMode(L, enabled) ==
    /\ (enabled /\ api.gameInstance /\ ~api.manualLoopRunning)
           => StepRoom(L, BatchNotifications)
    /\ LET w1 == [World EXCEPT !.api.fastForwardMode = enabled]
       IN Commit(
            IF ~w1.api.gameInstance THEN w1
            ELSE IF enabled
            THEN StartManualSimulationLoop(
                   [ w1 EXCEPT
                       \* Render.stop(render)
                       !.drv.renderOn = IF ~w1.api.renderStopped THEN FALSE
                                        ELSE w1.drv.renderOn,
                       !.api.renderStopped = TRUE ])
            ELSE LET w2 == StopManualSimulationLoop(w1)
                 IN [ w2 EXCEPT
                        \* Render.run(render)
                        !.drv.renderOn = IF w2.api.renderStopped THEN TRUE
                                         ELSE w2.drv.renderOn,
                        !.api.renderStopped = FALSE,
                        \* Runner.run(runner, engine)
                        !.drv.runnerOn = IF w2.api.runnerStopped THEN TRUE
                                         ELSE w2.drv.runnerOn,
                        !.api.runnerStopped = FALSE ])
    /\ outcome' = "ok"
    /\ UNCHANGED nonSchedVars

\* ------------------------------------------------- host scheduler callbacks

\* The pending setTimeout(runLoop, 0) fires.
RunLoopTimer(L) ==
    /\ api.manualLoopTimeoutId
    /\ StepRoom(L, BatchNotifications)
    /\ Commit(RunLoop([World EXCEPT !.api.manualLoopTimeoutId = FALSE]))
    /\ UNCHANGED outcome
    /\ UNCHANGED nonSchedVars

\* Timers fire in deadline order. A drop timer (800 ms) is due after every timer
\* set before it; a reset timer (200 ms) is due after every reset timer set before
\* it and may overtake drop timers.
CanFire(i) ==
    IF timers[i].kind = "drop" THEN i = 1
    ELSE \A j \in 1..(i - 1) : timers[j].kind = "drop"

RemoveAt(seq, i) == SubSeq(seq, 1, i - 1) \o SubSeq(seq, i + 1, Len(seq))

\* The 800 ms timer of processActionQueue (interactive mode) fires.
DropTimerFire ==
    /\ \E i \in 1..Len(timers) :
         /\ timers[i].kind = "drop"
         /\ CanFire(i)
         /\ Commit(ResolveCurrentAction([World EXCEPT !.tm = RemoveAt(timers, i)],
                                        "timer"))
    /\ UNCHANGED outcome
    /\ UNCHANGED nonSchedVars

\* The 200 ms timer of resetGame (interactive mode) fires: resolve().
ResetTimerFire ==
    /\ \E i \in 1..Len(timers) :
         /\ timers[i].kind = "reset"
         /\ CanFire(i)
         /\ Commit([ World EXCEPT
                       !.tm = RemoveAt(timers, i),
                       !.h.resetResolved = Append(hist.resetResolved, timers[i].id) ])
    /\ UNCHANGED outcome
    /\ UNCHANGED nonSchedVars

\* The Matter Runner advances the engine by one frame in real time.
RunnerTick ==
    /\ driver.runnerOn
    /\ api.simulationStep + driver.hooks <= MaxRunnerStep
    /\ Commit(EngineUpdate(World))
    /\ UNCHANGED outcome
    /\ UNCHANGED nonSchedVars


\* ------------------------------------------------------------ the DQN agent
\* Bounds of SpecAgent: memorySize and batchSize are configuration values
\* (config.memorySize, config.batchSize), MaxExperiences bounds the remember
\* calls and MaxTrainingSteps the completed learning steps.
MemorySize == 3
BatchSize == 2
MaxExperiences == 5
MaxTrainingSteps == 2
MaxEpisodeCount == 3

\* The agent's schedule configuration (config.epsilon, config.epsilonMin,
\* config.epsilonDecay, config.learningRate, config.learningRateMin,
\* config.learningRateDecay). The exploration rate is kept in thousandths and
\* the learning rate in millionths; both decay factors are 0.5, so that every
\* product below is exact: epsilon 1.0, 0.5, 0.25, 0.125 against a floor of
\* 0.2, learning rate 0.0005, 0.00025, 0.000125 against a floor of 0.0002.
epsilonInitial == 1000
epsilonMin == 200
epsilonDecayNum == 1
epsilonDecayDen == 2
learningRate == 500
learningRateMin == 200
learningRateDecayNum == 1
learningRateDecayDen == 2
\* decayLearningRate recompiles the model when trainingSteps % 1000 === 0.
RecompileEvery == 1000

\* x *= factor, the factor given as num / den.
Times(x, num, den) == (x * num) \div den

\* Priorities are kept in hundredths: 1.0 is 100 and perEpsilon = 0.01 is 1.
InitialPriority == 100
perEpsilon == 1
\* |TD error| of a sampled experience, in hundredths: whatever the networks give.
TdErrors == {0, 250}

ExperienceIds == 1..MaxExperiences

\* config.updateTargetEvery (default 5): a hard copy every so many episodes.
updateTargetEvery == 2

\* new DQNAgent(stateSize, actionSize, config), the replay-buffer part.
DQNAgentConstructor(usePER) ==
    [ usePER        |-> usePER,
      useSoftUpdate |-> TRUE,       \* config.useSoftUpdate !== false
      updateTargetEvery |-> updateTargetEvery,
      memory        |-> << >>,      \* experiences, oldest first
      priorities    |-> << >>,
      memorySize    |-> MemorySize,
      batchSize     |-> BatchSize,
      totalFrames   |-> 0,
      trainingSteps |-> 0,
      episodeCount  |-> 0,
      epsilon       |-> epsilonInitial,
      epsilonMin    |-> epsilonMin,
      currentLearningRate   |-> learningRate,
      learningRateMin       |-> learningRateMin,
      optimizerLearningRate |-> learningRate,   \* the rate the model was compiled with
      model         |-> 0,          \* the policy network's weights
      targetModel   |-> 0,          \* the target network's (updateTargetModel copies)
      fitting       |-> FALSE,      \* a replay() is suspended in await model.fit
      disposed      |-> FALSE ]

AgentLogInit ==
    [ remembered   |-> 0,                               \* remember calls so far
      sinceDispose |-> 0,                               \* remember calls since dispose
      prioOf       |-> [e \in ExperienceIds |-> 0],     \* priority given to experience e
      sampled      |-> {},                              \* indices of the last sampleBatch
      lastOp       |-> "none" ]                         \* the agent method that ran last
                                                        \* ("replaySkipped": replay's early return)

SeqMax(seq) == CHOOSE m \in Range(seq) : \A x \in Range(seq) : x <= m

\* Faulty variant of Remember: every new experience gets priority 1.0.
RememberInitialPriority(ag, e) ==
    IF ag.usePER
    THEN LET full == Len(ag.memory) >= ag.memorySize
         IN [ ag EXCEPT
                !.memory = Append(IF full THEN Tail(ag.memory) ELSE ag.memory, e),
                !.priorities = Append(IF full THEN Tail(ag.priorities)
                                      ELSE ag.priorities, InitialPriority),
                !.totalFrames = ag.totalFrames + 1 ]
    ELSE [ ag EXCEPT
             !.memory = LET m == Append(ag.memory, e)
                        IN IF Len(m) > ag.memorySize THEN Tail(m) ELSE m,
             !.totalFrames = ag.totalFrames + 1 ]

\* Faulty variant of Remember: the prioritized branch evicts from memory only.
RememberKeepsPriority(ag, e) ==
    IF ag.usePER
    THEN LET maxPriority == IF Len(ag.priorities) > 0 THEN SeqMax(ag.priorities)
                            ELSE InitialPriority
             full == Len(ag.memory) >= ag.memorySize
         IN [ ag EXCEPT
                !.memory = Append(IF full THEN Tail(ag.memory) ELSE ag.memory, e),
                !.priorities = Append(ag.priorities, maxPriority),
                !.totalFrames = ag.totalFrames + 1 ]
    ELSE [ ag EXCEPT
             !.memory = LET m == Append(ag.memory, e)
                        IN IF Len(m) > ag.memorySize THEN Tail(m) ELSE m,
             !.totalFrames = ag.totalFrames + 1 ]

\* Faulty variant of Remember: a full buffer drops its newest entry, not its oldest.
RememberEvictsNewest(ag, e) ==
    IF ag.usePER
    THEN LET maxPriority == IF Len(ag.priorities) > 0 THEN SeqMax(ag.priorities)
                            ELSE InitialPriority
             full == Len(ag.memory) >= ag.memorySize
             n    == Len(ag.memory)
         IN [ ag EXCEPT
                !.memory = Append(IF full THEN SubSeq(ag.memory, 1, n - 1)
                                  ELSE ag.memory, e),
                !.priorities = Append(IF full THEN SubSeq(ag.priorities, 1, n - 1)
                                      ELSE ag.priorities, maxPriority),
                !.totalFrames = ag.totalFrames + 1 ]
    ELSE [ ag EXCEPT
             !.memory = LET m == Append(ag.memory, e)
                        IN IF Len(m) > ag.memorySize
                           THEN SubSeq(m, 1, Len(m) - 2) \o <<e>> ELSE m,
             !.totalFrames = ag.totalFrames + 1 ]

\* remember(state, action, reward, nextState, done) applied to the agent record;
\* e names the experience object it builds.
Remember(ag, e) ==
    IF ag.usePER
    THEN LET maxPriority == IF Len(ag.priorities) > 0 THEN SeqMax(ag.priorities)
                            ELSE InitialPriority
             full == Len(ag.memory) >= ag.memorySize
         IN [ ag EXCEPT
                \* memory.shift(); priorities.shift(); then push to both
                !.memory = Append(IF full THEN Tail(ag.memory) ELSE ag.memory, e),
                !.priorities = Append(IF full THEN Tail(ag.priorities)
                                      ELSE ag.priorities, maxPriority),
                !.totalFrames = ag.totalFrames + 1 ]
    ELSE [ ag EXCEPT
             \* push, then shift when over capacity
             !.memory = LET m == Append(ag.memory, e)
                        IN IF Len(m) > ag.memorySize THEN Tail(m) ELSE m,
             !.totalFrames = ag.totalFrames + 1 ]

\* The priority remember gives the new experience (history only).
NewPriority(ag) ==
    IF ~ag.usePER THEN 0
    ELSE IF Len(ag.priorities) > 0 THEN SeqMax(ag.priorities) ELSE InitialPriority

DoRemember ==
    /\ alog.remembered < MaxExperiences
    /\ LET e == alog.remembered + 1
       IN /\ agent' = Remember(agent, e)
          /\ alog' = [ alog EXCEPT !.remembered = e,
                                   !.lastOp = "remember",
                                   !.sinceDispose = alog.sinceDispose + 1,
                                   !.prioOf[e] = NewPriority(agent) ]
    /\ UNCHANGED nonAgentVars

\* sampleBatch(batchSize): the index sets it can return. Both branches draw
\* min(batchSize, memory.length) distinct indices (0-based in the code, 1-based
\* here); every such set has positive probability.
SampleBatch(ag) ==
    LET n == IF ag.batchSize <= Len(ag.memory) THEN ag.batchSize ELSE Len(ag.memory)
    IN {ix \in SUBSET (1..Len(ag.memory)) : Cardinality(ix) = n}

\* The priority write-back of replay(): priorities[indices[i]] = tdErrors[i] + perEpsilon.
WritePriorities(prios, indices, td) ==
    [i \in 1..Len(prios) |-> IF i \in indices THEN td[i] + perEpsilon ELSE prios[i]]

\* Faulty variant of ReplaySkips: replay() returns early only on an empty buffer.
ReplaySkipsWhenEmpty(ag) ==
    Len(ag.memory) = 0

\* replay(): the test of its early return.
ReplaySkips(ag) ==
    Len(ag.memory) < ag.batchSize

\* replay() up to its await: returns at once on a short buffer, else samples,
\* computes the TD errors, writes the priorities back and suspends in model.fit.
ReplayBegin ==
    /\ agent.trainingSteps < MaxTrainingSteps
    /\ IF ReplaySkips(agent)
       THEN /\ agent' = agent
            /\ alog' = [alog EXCEPT !.lastOp = "replaySkipped"]
       ELSE /\ ~agent.fitting
            /\ \E indices \in SampleBatch(agent) :
               \E td \in [indices -> TdErrors] :
               /\ agent' = [ agent EXCEPT
                               !.priorities =
                                   IF agent.usePER
                                   THEN WritePriorities(agent.priorities, indices, td)
                                   ELSE agent.priorities,
                               !.fitting = TRUE ]
               /\ alog' = [ alog EXCEPT
                              !.sampled = indices,
                              !.lastOp = "replay",
                              !.prioOf =
                                  IF agent.usePER
                                  THEN [e \in ExperienceIds |->
                                          IF \E i \in indices : agent.memory[i] = e
                                          THEN td[CHOOSE i \in indices : agent.memory[i] = e]
                                               + perEpsilon
                                          ELSE alog.prioOf[e]]
                                  ELSE alog.prioOf ]
    /\ UNCHANGED nonAgentVars

\* decayLearningRate()
DecayLearningRate(ag) ==
    IF ag.currentLearningRate > ag.learningRateMin
    THEN LET lr == Times(ag.currentLearningRate, learningRateDecayNum,
                         learningRateDecayDen)
         IN [ ag EXCEPT
                !.currentLearningRate = lr,
                !.optimizerLearningRate =
                    IF ag.trainingSteps % RecompileEvery = 0 THEN lr
                    ELSE ag.optimizerLearningRate ]
    ELSE ag

\* decayEpsilon()
DecayEpsilon(ag) ==
    IF ag.epsilon > ag.epsilonMin
    THEN [ag EXCEPT !.epsilon = Times(ag.epsilon, epsilonDecayNum, epsilonDecayDen)]
    ELSE ag

\* updateTargetModel(): the target network gets a copy of the policy weights.
UpdateTargetModel(ag) ==
    [ag EXCEPT !.targetModel = ag.model]

\* Faulty variant of EndEpisodeCall: the hard copy does not look at useSoftUpdate.
EndEpisodeCallAlwaysCopies(ag) ==
    LET ag1 == DecayEpsilon([ag EXCEPT !.episodeCount = ag.episodeCount + 1])
    IN IF ag1.episodeCount % ag1.updateTargetEvery = 0
       THEN UpdateTargetModel(ag1)
       ELSE ag1

\* The body of endEpisode(): count the episode, decay epsilon and, without soft
\* updates, copy the policy network into the target network every
\* updateTargetEvery episodes.
EndEpisodeCall(ag) ==
    LET ag1 == DecayEpsilon([ag EXCEPT !.episodeCount = ag.episodeCount + 1])
    IN IF ~ag1.useSoftUpdate /\ ag1.episodeCount % ag1.updateTargetEvery = 0
       THEN UpdateTargetModel(ag1)
       ELSE ag1

\* endEpisode()
EndEpisode ==
    /\ agent.episodeCount < MaxEpisodeCount
    /\ agent' = EndEpisodeCall(agent)
    /\ alog' = [alog EXCEPT !.lastOp = "endEpisode"]
    /\ UNCHANGED nonAgentVars

\* A network's weights are kept as one integer. model.fit moves the policy
\* network by a gradient step, here always the same one.
FitStep == 4
\* tau = 0.005, here 1/2 so that one blend stays a whole number.
tauNum == 1
tauDen == 2

\* softUpdateTargetModel(): target = tau * main + (1 - tau) * target.
SoftUpdateTargetModel(ag) ==
    [ ag EXCEPT !.targetModel =
                   (tauNum * ag.model + (tauDen - tauNum) * ag.targetModel) \div tauDen ]

\* replay() from the fit to its return: the fitted weights, trainingSteps++,
\* decayLearningRate() and, with useSoftUpdate, softUpdateTargetModel().
TrainStep(ag) ==
    LET ag1 == DecayLearningRate([ ag EXCEPT !.model = ag.model + FitStep,
                                             !.trainingSteps = ag.trainingSteps + 1 ])
    IN IF ag1.useSoftUpdate THEN SoftUpdateTargetModel(ag1) ELSE ag1

\* replay() after model.fit settles: a completed fit counts a training step,
\* decays the learning rate and blends the target network; a failed one leaves
\* through the finally block.
ReplayEnd(fitOk) ==
    /\ agent.fitting
    /\ agent' = IF fitOk
                THEN [TrainStep(agent) EXCEPT !.fitting = FALSE]
                ELSE [agent EXCEPT !.fitting = FALSE]
    /\ UNCHANGED alog
    /\ UNCHANGED nonAgentVars

\* dispose()
Dispose ==
    /\ agent' = [ agent EXCEPT !.memory = << >>,
                               !.priorities = << >>,
                               !.disposed = TRUE ]
    /\ alog' = [alog EXCEPT !.sinceDispose = 0, !.lastOp = "dispose"]
    /\ UNCHANGED nonAgentVars

\* ------------------------------------------------------------ the controller
\* Bounds of SpecTrain: one startTraining(Episodes, MaxSteps) run.
Episodes == 2
MaxSteps == 2
\* Bounds of SpecCtl and SpecModes: the accepted startTraining(CtlEpisodes,
\* CtlMaxSteps) calls, and the startPlayback, stopTraining and resetTraining calls.
CtlEpisodes == 1
CtlMaxSteps == 3
MaxTrainStarts == 2
MaxPlayStarts == 1
MaxStops == 1
MaxResetTrainings == 1

\* Bounds of SpecPlay (one startPlayback call): actions played, simulation steps.
MaxPlayActions == 1
MaxPlayStep == 60
TrainLimits ==
    [ episodes |-> Episodes, maxSteps |-> MaxSteps, trainStarts |-> 1,
      playStarts |-> 0, stops |-> 0, resets |-> 0 ]
CtlLimits ==
    [ episodes |-> CtlEpisodes, maxSteps |-> CtlMaxSteps, trainStarts |-> MaxTrainStarts,
      playStarts |-> 0, stops |-> MaxStops, resets |-> 0 ]
PlayLimits ==
    [ episodes |-> 0, maxSteps |-> 0, trainStarts |-> 0, playStarts |-> 1,
      stops |-> 0, resets |-> 0, actions |-> MaxPlayActions, step |-> MaxPlayStep ]
ResetLimits ==
    [ episodes |-> CtlEpisodes, maxSteps |-> CtlMaxSteps, trainStarts |-> 1,
      playStarts |-> 0, stops |-> 0, resets |-> MaxResetTrainings ]
ModeLimits ==
    [ episodes |-> CtlEpisodes, maxSteps |-> CtlMaxSteps, trainStarts |-> 1,
      playStarts |-> MaxPlayStarts, stops |-> MaxStops, resets |-> MaxResetTrainings ]

trainEverySteps == 2
\* startTraining saves the model when (episode + 1) % 10 === 0.
SaveEvery == 10

\* |TD error| of the learning steps of a training run: the one value that makes
\* the write-back restore the priority 1.0 every entry starts with.
CtlTdError == InitialPriority - perEpsilon

\* localStorage holds no metadata item.
NoMetadata == [absent |-> TRUE]

\* The checkpoint metadata saveModel writes.
Metadata(ag) ==
    [ epsilon |-> ag.epsilon, episodeCount |-> ag.episodeCount,
      trainingSteps |-> ag.trainingSteps, totalFrames |-> ag.totalFrames,
      currentLearningRate |-> ag.currentLearningRate ]

\* new RLController(gameAPI): flags and the statistics that are counted.
RLControllerConstructor ==
    [ isTraining    |-> FALSE,
      isPlaying     |-> FALSE,
      isPaused      |-> FALSE,
      totalEpisodes |-> 0,          \* stats.totalEpisodes
      totalSteps    |-> 0,          \* stats.totalSteps
      agentGen      |-> 0 ]         \* which DQNAgent object this.agent is

\* The durable store: the saved model's weights (IndexedDB), the metadata record
\* and the statistics record (localStorage). snapshot remembers the agent as it
\* was when the save that wrote the model was called.
NoSnapshot == [absent |-> TRUE]
Snapshot(ag) ==
    [model |-> ag.model, targetModel |-> ag.targetModel, metadata |-> Metadata(ag)]
StoreEmpty ==
    [ hasModel |-> FALSE, weights |-> 0, metadata |-> NoMetadata, hasStats |-> FALSE,
      snapshot |-> NoSnapshot ]
\* A metadata record that JSON.parse rejects.
Corrupt == [corrupt |-> TRUE]

\* loadModel(): this.model = await tf.loadLayersModel(...)
LoadPolicy(ag, st) == [ag EXCEPT !.model = st.weights]
\* loadModel(): this.targetModel = await tf.loadLayersModel(...) of the same
\* saved model, then both are compiled with the current learning rate.
LoadTarget(ag, st) ==
    [ ag EXCEPT !.targetModel = st.weights,
                !.optimizerLearningRate = ag.currentLearningRate ]
\* loadModel(): the metadata record is applied.
LoadMetadata(ag, md) ==
    [ ag EXCEPT
        !.epsilon = md.epsilon,
        !.episodeCount = md.episodeCount,
        !.trainingSteps = md.trainingSteps,
        !.totalFrames = md.totalFrames,
        !.currentLearningRate =
            IF md.currentLearningRate # 0 THEN md.currentLearningRate ELSE learningRate ]

CtlLogInit ==
    [ trainStarts    |-> 0,         \* accepted startTraining calls
      playStarts     |-> 0,
      stops          |-> 0,
      resets         |-> 0,
      everPaused     |-> FALSE,
      everStopped    |-> FALSE,
      everTerminal   |-> FALSE,     \* some step reported done
      unsaved        |-> FALSE,     \* a run changed agent or statistics since the last save
      saveInReplay   |-> FALSE,     \* a save or load started while a replay was suspended
      rememberInReplay |-> FALSE,   \* remember ran while a replay was suspended
      resetQuiet     |-> FALSE,     \* resetTraining ran with no async call pending
                                    \* and nothing was called since
      pauseHeld      |-> FALSE,     \* pause() was called during training and
                                    \* resume() not since
      calledWhilePaused |-> FALSE ] \* a training loop called environment.reset or
                                    \* environment.step while pauseHeld

\* No controller activity: the state of the controller in the other specifications.
CtlIdle ==
    /\ ctl = RLControllerConstructor
    /\ loops = << >>
    /\ store = StoreEmpty
    /\ clog = CtlLogInit

CtlWorld == [ctl |-> ctl, loops |-> loops, agent |-> agent, store |-> store, clog |-> clog]

CtlCommit(cw) ==
    /\ ctl' = cw.ctl
    /\ loops' = cw.loops
    /\ agent' = cw.agent
    /\ store' = cw.store
    /\ clog' = cw.clog

\* An async call of the controller suspended at an await.
NewLoop(L, kind, pc) ==
    [ kind |-> kind, pc |-> pc, episodes |-> L.episodes, maxSteps |-> L.maxSteps,
      episode |-> 0, step |-> 0, stepCount |-> 0, done |-> FALSE, gen |-> 0,
      meta |-> NoMetadata,
      episodesRun |-> 0, stepsRun |-> 0, idled |-> FALSE, shortEpisode |-> FALSE,
      startSteps |-> 0,
      result |-> "pending", setPlaying |-> FALSE, didReset |-> FALSE,
      didStep |-> FALSE, awaits |-> 0,
      afterReset |-> FALSE, loaded |-> FALSE, beganFresh |-> FALSE,
      weights |-> 0 ]

\* A replay() on the controller's current agent is suspended in its fit.
ReplayInFlight(cw) ==
    \E t \in 1..Len(cw.loops) :
        cw.loops[t].pc = "replay" /\ cw.loops[t].gen = cw.ctl.agentGen

\* agent.saveModel() / agent.loadModel() is called: up to its first await.
StartPersist(cw, t, pc) ==
    [ cw EXCEPT !.loops[t].pc = pc,
                !.loops[t].gen = cw.ctl.agentGen,
                !.loops[t].meta = NoMetadata,
                !.loops[t].weights = IF pc = "load" THEN 0 ELSE cw.agent.model,
                !.clog.saveInReplay = cw.clog.saveInReplay \/ ReplayInFlight(cw) ]

\* saveModel() after model.save settles: the metadata is read and written now.
\* An agent replaced by resetTraining meanwhile left its metadata in the loop.
FinishSave(cw, t) ==
    [ cw EXCEPT !.store.hasModel = TRUE,
                !.store.weights = cw.loops[t].weights,
                !.store.snapshot = NoSnapshot,
                !.store.metadata = IF cw.loops[t].gen = cw.ctl.agentGen
                                   THEN Metadata(cw.agent) ELSE cw.loops[t].meta ]

\* loadModel() after the loads settle: metadata is applied when a checkpoint and
\* its metadata exist; without a checkpoint the load throws and false is returned.
FinishLoad(cw, t) ==
    IF cw.store.hasModel /\ cw.loops[t].gen = cw.ctl.agentGen
    THEN LET a1 == LoadTarget(LoadPolicy(cw.agent, cw.store), cw.store)
         IN [ cw EXCEPT !.agent = IF cw.store.metadata # NoMetadata
                                  THEN LoadMetadata(a1, cw.store.metadata)
                                  ELSE a1 ]
    ELSE cw

\* saveStats()
SaveStats(cw) == [cw EXCEPT !.store.hasStats = TRUE]

\* environment.reset() is called by loop t: gameAPI.resetGame() empties the
\* action queue and drops the resolver of the action in flight, so a step
\* another loop is awaiting never settles.
EnvReset(cw, t) ==
    [ cw EXCEPT
        !.clog.calledWhilePaused =
            cw.clog.calledWhilePaused
            \/ (cw.clog.pauseHeld /\ cw.loops[t].kind = "train"),
        !.loops =
        [ u \in 1..Len(cw.loops) |->
            IF u = t THEN [cw.loops[u] EXCEPT !.pc = "reset", !.didReset = TRUE]
            ELSE IF cw.loops[u].pc = "step" THEN [cw.loops[u] EXCEPT !.pc = "hung"]
            ELSE cw.loops[u] ] ]

\* Faulty variant of TrainingLoopHead: an iteration that finds the pause flag set
\* moves on to the next episode index.
TrainingLoopHeadPauseCounts(cw, t) ==
    LET th == cw.loops[t]
    IN IF th.episode < th.episodes /\ cw.ctl.isTraining
       THEN IF cw.ctl.isPaused
            THEN [ cw EXCEPT !.loops[t].pc = "pause", !.loops[t].idled = TRUE,
                             !.loops[t].episode = th.episode + 1 ]
            ELSE EnvReset([cw EXCEPT !.loops[t].episodesRun = th.episodesRun + 1], t)
       ELSE IF cw.ctl.isTraining
            THEN StartPersist(cw, t, "finalSave")
            ELSE [cw EXCEPT !.loops[t].pc = "done"]

\* startTraining: the head of the for loop, up to the next await. A paused
\* iteration waits 100 ms and retries the same index; otherwise runEpisode starts
\* with environment.reset(). After the loop comes the final save.
TrainingLoopHead(cw, t) ==
    LET th == cw.loops[t]
    IN IF th.episode < th.episodes /\ cw.ctl.isTraining
       THEN IF cw.ctl.isPaused
            THEN [cw EXCEPT !.loops[t].pc = "pause", !.loops[t].idled = TRUE]
            ELSE EnvReset([cw EXCEPT !.loops[t].episodesRun = th.episodesRun + 1], t)
       ELSE IF cw.ctl.isTraining
            THEN StartPersist(cw, t, "finalSave")
            ELSE [cw EXCEPT !.loops[t].pc = "done"]

\* runEpisode after its step loop: endEpisode, the statistics, the periodic
\* saves, and back to the head of the training loop with the next index.
EpisodeEnd(cw, t) ==
    LET th   == cw.loops[t]
        tenth == (th.episode + 1) % SaveEvery = 0
        cw1  == [ cw EXCEPT
                    !.agent = EndEpisodeCall(cw.agent),
                    !.ctl.totalEpisodes = cw.ctl.totalEpisodes + 1,
                    !.clog.unsaved = TRUE,
                    !.loops[t].shortEpisode =
                        th.shortEpisode \/ th.stepCount < th.maxSteps ]
        cw2  == IF tenth THEN SaveStats(cw1) ELSE cw1
    IN IF tenth
       THEN StartPersist(cw2, t, "periodicSave")
       ELSE TrainingLoopHead([cw2 EXCEPT !.loops[t].episode = th.episode + 1], t)

\* Faulty variant of StepLoopHead: the loop runs one step too many.
StepLoopHeadOneMore(cw, t) ==
    LET th == cw.loops[t]
    IN IF th.step <= th.maxSteps /\ cw.ctl.isTraining /\ ~cw.ctl.isPaused
       THEN [cw EXCEPT !.loops[t].pc = "step"]
       ELSE EpisodeEnd(cw, t)

\* runEpisode: the head of the step loop. selectAction settles at once, then
\* environment.step(action) is awaited.
StepLoopHead(cw, t) ==
    LET th == cw.loops[t]
    IN IF th.step < th.maxSteps /\ cw.ctl.isTraining /\ ~cw.ctl.isPaused
       THEN [ cw EXCEPT !.loops[t].pc = "step",
                        !.clog.calledWhilePaused =
                            cw.clog.calledWhilePaused \/ cw.clog.pauseHeld ]
       ELSE EpisodeEnd(cw, t)

\* runEpisode: the rest of a step once the experience is stored and learnt from.
AfterLearning(cw, t) ==
    LET th  == cw.loops[t]
        cw1 == [ cw EXCEPT !.loops[t].stepCount = th.stepCount + 1,
                           !.loops[t].stepsRun = th.stepsRun + 1,
                           !.ctl.totalSteps = cw.ctl.totalSteps + 1,
                           !.clog.unsaved = TRUE ]
    IN IF th.done THEN EpisodeEnd(cw1, t)
       ELSE StepLoopHead([cw1 EXCEPT !.loops[t].step = th.step + 1], t)

\* replay() as the training loop calls it, up to its await: the priorities of
\* the sampled entries are written back (with CtlTdError every sampled entry
\* gets the same value, whichever indices sampleBatch drew).
BeginReplay(cw, t) ==
    LET indices == CHOOSE ix \in SampleBatch(cw.agent) : TRUE
        td      == [i \in indices |-> CtlTdError]
    IN [ cw EXCEPT
           !.agent.priorities = IF cw.agent.usePER
                                THEN WritePriorities(cw.agent.priorities, indices, td)
                                ELSE cw.agent.priorities,
           !.loops[t].pc = "replay",
           !.loops[t].gen = cw.ctl.agentGen ]

\* runEpisode after environment.step settles: remember, and every
\* trainEverySteps steps a replay once the buffer holds a batch.
AfterStep(cw, t, done) ==
    LET th  == cw.loops[t]
        cw1 == [ cw EXCEPT
                   !.agent = Remember(cw.agent, 1),
                   !.loops[t].done = done,
                   !.clog.everTerminal = cw.clog.everTerminal \/ done,
                   !.clog.unsaved = TRUE,
                   !.clog.rememberInReplay =
                       cw.clog.rememberInReplay \/ ReplayInFlight(cw) ]
    IN IF Len(cw1.agent.memory) >= cw1.agent.batchSize /\ th.step % trainEverySteps = 0
       THEN BeginReplay(cw1, t)
       ELSE AfterLearning(cw1, t)

\* replay() after its fit settles, then the rest of the step. A fit on an agent
\* that resetTraining disposed of changes nothing the controller still holds.
AfterReplay(cw, t) ==
    LET cw1 == IF cw.loops[t].gen = cw.ctl.agentGen
               THEN [cw EXCEPT !.agent = TrainStep(cw.agent)]
               ELSE cw
    IN AfterLearning(cw1, t)

\* startPlayback: the head of the while loop.
PlaybackLoopHead(cw, t, gameOver) ==
    IF cw.ctl.isPlaying /\ ~gameOver
    THEN IF cw.ctl.isPaused THEN [cw EXCEPT !.loops[t].pc = "pause"]
         ELSE [cw EXCEPT !.loops[t].pc = "step", !.loops[t].didStep = TRUE]
    ELSE [cw EXCEPT !.ctl.isPlaying = FALSE, !.loops[t].pc = "done",
                    !.loops[t].result = "true"]

\* startTraining(episodes, maxSteps), up to its first await (agent.loadModel()).
StartTraining(L) ==
    /\ IF ctl.isTraining
       THEN UNCHANGED <<ctl, loops, store, clog, agent>>
       ELSE /\ clog.trainStarts < L.trainStarts
            /\ LET t   == Len(loops) + 1
                   cw1 == [ CtlWorld EXCEPT
                              !.ctl.isTraining = TRUE,
                              !.ctl.isPaused = FALSE,
                              !.clog.trainStarts = clog.trainStarts + 1,
                              !.clog.resetQuiet = FALSE,
                              !.loops = Append(loops,
                                  [NewLoop(L, "train", "load") EXCEPT
                                      !.startSteps = ctl.totalSteps,
                                      !.afterReset = clog.resetQuiet]) ]
               IN CtlCommit(StartPersist(cw1, t, "load"))
    /\ UNCHANGED <<api, driver, timers, hist, outcome, alog, sample>>

\* startPlayback(), up to its first await (agent.loadModel()).
StartPlayback(L) ==
    /\ IF ctl.isPlaying
       THEN UNCHANGED <<ctl, loops, store, clog, agent>>
       ELSE /\ clog.playStarts < L.playStarts
            /\ LET t   == Len(loops) + 1
                   cw1 == [ CtlWorld EXCEPT
                              !.clog.playStarts = clog.playStarts + 1,
                              !.clog.resetQuiet = FALSE,
                              !.loops = Append(loops, NewLoop(L, "play", "load")) ]
               IN CtlCommit(StartPersist(cw1, t, "load"))
    /\ UNCHANGED <<api, driver, timers, hist, outcome, alog, sample>>

\* stopTraining(), up to its await (agent.saveModel()).
StopTraining(L) ==
    /\ clog.stops < L.stops
    /\ LET t   == Len(loops) + 1
           cw1 == [ CtlWorld EXCEPT
                      !.ctl.isTraining = FALSE,
                      !.clog.stops = clog.stops + 1,
                      !.clog.everStopped = TRUE,
                      !.clog.resetQuiet = FALSE,
                      !.loops = Append(loops, NewLoop(L, "stop", "save")) ]
       IN CtlCommit(StartPersist(cw1, t, "save"))
    /\ UNCHANGED <<api, driver, timers, hist, outcome, alog, sample>>

\* stopPlayback()
StopPlayback ==
    /\ ctl' = [ctl EXCEPT !.isPlaying = FALSE]
    /\ UNCHANGED <<loops, store, clog, agent>>
    /\ UNCHANGED <<api, driver, timers, hist, outcome, alog, sample>>

\* pause()
Pause ==
    /\ ctl' = [ctl EXCEPT !.isPaused = TRUE]
    /\ clog' = [clog EXCEPT !.everPaused = TRUE,
                            !.pauseHeld = clog.pauseHeld \/ ctl.isTraining]
    /\ UNCHANGED <<loops, store, agent>>
    /\ UNCHANGED <<api, driver, timers, hist, outcome, alog, sample>>

\* resume()
Resume ==
    /\ ctl' = [ctl EXCEPT !.isPaused = FALSE]
    /\ clog' = [clog EXCEPT !.pauseHeld = FALSE]
    /\ UNCHANGED <<loops, store, agent>>
    /\ UNCHANGED <<api, driver, timers, hist, outcome, alog, sample>>

\* resetTraining(): dispose of the agent, build a new one, zero the statistics
\* and remove the saved ones. A saveModel of the old agent still in flight will
\* write the old agent's metadata.
ResetTraining(L) ==
    /\ clog.resets < L.resets
    /\ CtlCommit([ CtlWorld EXCEPT
                     !.agent = DQNAgentConstructor(TRUE),
                     !.ctl.agentGen = ctl.agentGen + 1,
                     !.ctl.totalEpisodes = 0,
                     !.ctl.totalSteps = 0,
                     !.store.hasStats = FALSE,
                     !.clog.resets = clog.resets + 1,
                     !.clog.resetQuiet =
                         \A t \in 1..Len(loops) : loops[t].pc \in {"done", "failed", "hung"},
                     !.loops = [ t \in 1..Len(loops) |->
                                   IF loops[t].pc \in {"save", "finalSave", "periodicSave"}
                                         /\ loops[t].gen = ctl.agentGen
                                   THEN [loops[t] EXCEPT !.meta = Metadata(agent)]
                                   ELSE loops[t] ] ])
    /\ UNCHANGED <<api, driver, timers, hist, outcome, alog, sample>>

\* The agent is as its constructor leaves it, the statistics are zero and no
\* statistics record is stored.
FreshStart(cw) ==
    /\ Metadata(cw.agent) = Metadata(DQNAgentConstructor(TRUE))
    /\ cw.agent.memory = << >>
    /\ cw.agent.priorities = << >>
    /\ cw.ctl.totalEpisodes = 0
    /\ cw.ctl.totalSteps = 0
    /\ ~cw.store.hasStats

\* The continuation of startTraining / runEpisode after the await the loop is at.
\* b is what the awaited call reports: done for a step, and for a fit on a
\* disposed agent whether it threw.
TrainingContinue(cw, t, b) ==
    LET th == cw.loops[t]
    IN CASE th.pc = "load"  ->
                LET cw1 == FinishLoad(cw, t)
                IN TrainingLoopHead(
                     [ cw1 EXCEPT !.loops[t].loaded = TRUE,
                                  !.loops[t].beganFresh = FreshStart(cw1) ], t)
         [] th.pc = "pause" -> TrainingLoopHead(cw, t)
         [] th.pc = "reset" ->
                StepLoopHead([cw EXCEPT !.loops[t].step = 0,
                                        !.loops[t].stepCount = 0], t)
         [] th.pc = "step"  -> AfterStep(cw, t, b)
         [] th.pc = "replay" ->
                IF th.gen # cw.ctl.agentGen /\ b
                THEN [cw EXCEPT !.loops[t].pc = "failed"]
                ELSE AfterReplay(cw, t)
         [] th.pc = "periodicSave" ->
                TrainingLoopHead(
                    [FinishSave(cw, t) EXCEPT !.loops[t].episode = th.episode + 1], t)
         [] th.pc = "finalSave" ->
                [ SaveStats(FinishSave(cw, t)) EXCEPT
                    !.ctl.isTraining = FALSE,
                    !.clog.unsaved = FALSE,
                    !.loops[t].pc = "done" ]

\* Faulty variant of PlaybackContinue: what loadModel() returned is ignored.
PlaybackContinueIgnoresLoad(cw, t, b) ==
    LET th == cw.loops[t]
    IN CASE th.pc = "load" ->
                EnvReset([ (IF cw.store.hasModel THEN FinishLoad(cw, t) ELSE cw) EXCEPT
                             !.ctl.isPlaying = TRUE,
                             !.ctl.isPaused = FALSE,
                             !.loops[t].setPlaying = TRUE,
                             !.loops[t].result =
                                 IF cw.store.hasModel THEN "pending" ELSE "false" ], t)
         [] th.pc = "reset" -> PlaybackLoopHead(cw, t, b)
         [] th.pc = "pause" -> PlaybackLoopHead(cw, t, b)
         [] th.pc = "step"  -> [cw EXCEPT !.loops[t].pc = "delay"]
         [] th.pc = "delay" -> PlaybackLoopHead(cw, t, b)

\* The continuation of startPlayback; b is what isGameOver() reports.
PlaybackContinue(cw, t, b) ==
    LET th == cw.loops[t]
    IN CASE th.pc = "load" ->
                IF ~cw.store.hasModel
                THEN [cw EXCEPT !.loops[t].pc = "done", !.loops[t].result = "false"]
                ELSE EnvReset([ FinishLoad(cw, t) EXCEPT
                                  !.ctl.isPlaying = TRUE,
                                  !.ctl.isPaused = FALSE,
                                  !.loops[t].setPlaying = TRUE ], t)
         [] th.pc = "reset" -> PlaybackLoopHead(cw, t, b)
         [] th.pc = "pause" -> PlaybackLoopHead(cw, t, b)
         [] th.pc = "step"  -> [cw EXCEPT !.loops[t].pc = "delay"]
         [] th.pc = "delay" -> PlaybackLoopHead(cw, t, b)

\* The continuation of stopTraining: saveModel writes the metadata, then saveStats.
StopContinue(cw, t) ==
    [ SaveStats(FinishSave(cw, t)) EXCEPT !.clog.unsaved = FALSE,
                                          !.loops[t].pc = "done" ]

\* The promise an async call of the controller awaits settles and the call runs
\* on to its next await.
Settle(t, b) ==
    /\ t \in 1..Len(loops)
    /\ loops[t].pc \notin {"done", "failed", "hung"}
    /\ CtlCommit(CASE loops[t].kind = "train" -> TrainingContinue(CtlWorld, t, b)
                   [] loops[t].kind = "play"  -> PlaybackContinue(CtlWorld, t, b)
                   [] loops[t].kind = "stop"  -> StopContinue(CtlWorld, t))
    /\ UNCHANGED <<api, driver, timers, hist, outcome, alog, sample>>

\* The choices of selectBestAction (an argMax over actionSize outputs).
BestActions == {0, actionSize - 1}

\* The continuation of startPlayback on the real scheduler: the awaited promise
\* of resetGame / executeAction has settled, the call runs on, and what it then
\* asks of the environment (reset(), step(action)) is a call of the GameAPI.
\* Both throw on an API that is not bound, which rejects startPlayback.
PlaybackSettle(L, t, b, newEngine, action) ==
    /\ t \in 1..Len(loops)
    /\ loops[t].kind = "play"
    /\ loops[t].pc \notin {"done", "failed", "hung"}
    /\ loops[t].pc = "reset" => ResetResolved(loops[t].awaits)
    /\ loops[t].pc = "step" => Resolved(loops[t].awaits)
    /\ LET cw2 == PlaybackContinue(CtlWorld, t, b)
           to  == cw2.loops[t].pc
       IN IF to \in {"reset", "step"} /\ ~api.gameInstance
          THEN /\ CtlCommit([cw2 EXCEPT !.loops[t].pc = "failed"])
               /\ UNCHANGED <<api, driver, timers, hist>>
          ELSE IF to = "reset"
          THEN /\ CtlCommit([cw2 EXCEPT !.loops[t].awaits = hist.resets + 1])
               /\ Commit(ResetGameCall(World, newEngine))
          ELSE IF to = "step"
          THEN /\ hist.enqueued < L.actions
               /\ CtlCommit([cw2 EXCEPT !.loops[t].awaits = hist.enqueued + 1])
               /\ Commit(EnqueueAction(
                     [World EXCEPT !.h.stepForwarded = @ \cup {StepPosition(action)}],
                     StepPosition(action)))
          ELSE /\ CtlCommit(cw2)
               /\ UNCHANGED <<api, driver, timers, hist>>
    /\ UNCHANGED <<outcome, alog, sample>>

\* ------------------------------------------------- saveModel / loadModel
\* Bounds of SpecPersist: calls of saveModel and of loadModel.
MaxSaves == 1
MaxLoads == 1

\* One call of saveModel or loadModel, suspended at its await.
PersistCall(kind, pc) ==
    [ kind |-> kind, pc |-> pc, result |-> "pending",
      weights |-> 0,            \* what model.save was handed
      snap |-> NoSnapshot,      \* the agent when saveModel was called
      changed |-> FALSE,        \* this loadModel assigned something new to the agent
      mid |-> NoSnapshot,       \* the agent as the first load left it
      expected |-> NoSnapshot,  \* the snapshot of the save whose checkpoint is loaded
      restored |-> NoSnapshot ] \* the agent as loadModel left it
Calls(kind) == {t \in 1..Len(loops) : loops[t].kind = kind}

\* saveModel(), up to await this.model.save(...).
SaveModel ==
    /\ Cardinality(Calls("saveModel")) < MaxSaves
    /\ loops' = Append(loops, [ PersistCall("saveModel", "save") EXCEPT
                                  !.weights = agent.model,
                                  !.snap = Snapshot(agent) ])
    /\ UNCHANGED <<agent, store, ctl, clog>>
    /\ UNCHANGED <<api, driver, timers, hist, outcome, alog, sample>>

\* saveModel() after model.save settles: the metadata is read now and written.
SaveModelSettle(t) ==
    /\ t \in Calls("saveModel")
    /\ loops[t].pc = "save"
    /\ store' = [ store EXCEPT !.hasModel = TRUE,
                               !.weights = loops[t].weights,
                               !.metadata = Metadata(agent),
                               !.snapshot = loops[t].snap ]
    /\ loops' = [loops EXCEPT ![t].pc = "done", ![t].result = "true"]
    /\ UNCHANGED <<agent, ctl, clog>>
    /\ UNCHANGED <<api, driver, timers, hist, outcome, alog, sample>>

\* loadModel(), up to the first await tf.loadLayersModel(...).
LoadModel ==
    /\ Cardinality(Calls("loadModel")) < MaxLoads
    /\ loops' = Append(loops, PersistCall("loadModel", "policy"))
    /\ UNCHANGED <<agent, store, ctl, clog>>
    /\ UNCHANGED <<api, driver, timers, hist, outcome, alog, sample>>

\* loadModel() after an awaited load settles. A load of a missing model throws;
\* so does JSON.parse of an unreadable metadata record, after both networks were
\* assigned. The catch block returns false.
LoadModelSettle(t) ==
    /\ t \in Calls("loadModel")
    /\ loops[t].pc \in {"policy", "target"}
    /\ IF ~store.hasModel
       THEN /\ loops' = [loops EXCEPT ![t].pc = "done", ![t].result = "false"]
            /\ UNCHANGED agent
       ELSE IF loops[t].pc = "policy"
       THEN LET a1 == LoadPolicy(agent, store)
            IN /\ agent' = a1
               /\ loops' = [ loops EXCEPT ![t].pc = "target",
                                          ![t].changed = (a1 # agent),
                                          ![t].mid = Snapshot(a1),
                                          ![t].expected = store.snapshot ]
       ELSE LET a1 == LoadTarget(agent, store)
                a2 == IF store.metadata \in {NoMetadata, Corrupt} THEN a1
                      ELSE LoadMetadata(a1, store.metadata)
                undisturbed == /\ Snapshot(agent) = loops[t].mid
                               /\ store.snapshot = loops[t].expected
            IN /\ agent' = a2
               /\ loops' = [ loops EXCEPT
                               ![t].pc = "done",
                               ![t].result = IF store.metadata = Corrupt
                                             THEN "false" ELSE "true",
                               ![t].changed = loops[t].changed \/ (a2 # agent),
                               ![t].expected = IF undisturbed THEN loops[t].expected
                                               ELSE NoSnapshot,
                               ![t].restored = Snapshot(a2) ]
    /\ UNCHANGED <<store, ctl, clog>>
    /\ UNCHANGED <<api, driver, timers, hist, outcome, alog, sample>>

\* ------------------------------------------------- the targets of replay()
\* Bound of SpecTarget: the number of actions (outputs of the networks).
NumActions == 2

\* gamma = 0.99 as a fraction; Q-values and rewards are whole multiples of 100
\* so that gamma * q is exact.
gammaNum == 99
gammaDen == 100
QValues == {-100, 200}
Rewards == {-100, 100}
QActions == 1..NumActions
QVectors == [QActions -> QValues]

VecMax(q) == CHOOSE m \in {q[a] : a \in QActions} : \A a \in QActions : q[a] <= m
\* argMax(-1): the first index holding the maximum.
ArgMax(q) == CHOOSE a \in QActions : q[a] = VecMax(q) /\ \A b \in 1..(a - 1) : q[b] < VecMax(q)

\* Faulty variant of TargetValue: double DQN evaluates the target network's own
\* best action.
TargetValueTargetMax(useDoubleDQN, reward, done, nextPolicyQ, nextTargetQ) ==
    IF done THEN reward
    ELSE reward + Times(VecMax(nextTargetQ), gammaNum, gammaDen)

\* replay(): the target Q-value of one sampled experience.
TargetValue(useDoubleDQN, reward, done, nextPolicyQ, nextTargetQ) ==
    IF done THEN reward
    ELSE IF useDoubleDQN
    THEN LET selectedAction == ArgMax(nextPolicyQ)
         IN reward + Times(nextTargetQ[selectedAction], gammaNum, gammaDen)
    ELSE reward + Times(VecMax(nextTargetQ), gammaNum, gammaDen)

\* replay(): targetQValues = currentQValues.slice(); targetQValues[action] = targetValue
TargetVector(currentQ, action, targetValue) ==
    [currentQ EXCEPT ![action] = targetValue]

Abs(x) == IF x < 0 THEN -x ELSE x

\* No sample drawn yet.
SampleInit ==
    [ computed |-> FALSE, useDoubleDQN |-> TRUE, action |-> 1, reward |-> 0,
      done |-> FALSE, currentQ |-> << >>, nextPolicyQ |-> << >>,
      nextTargetQ |-> << >>, targetValue |-> 0, targets |-> << >>, tdError |-> 0 ]

\* A sampled experience and what the two networks predict for it.
SampleInputs ==
    { [ computed |-> FALSE, useDoubleDQN |-> d, action |-> a, reward |-> r,
        done |-> t, currentQ |-> q, nextPolicyQ |-> np, nextTargetQ |-> nt,
        targetValue |-> 0, targets |-> << >>, tdError |-> 0 ] :
        d \in BOOLEAN, a \in QActions, r \in Rewards, t \in BOOLEAN,
        q \in QVectors, np \in QVectors, nt \in QVectors }

\* The loop body of replay() that builds the target of one sampled experience.
ComputeTarget ==
    /\ ~sample.computed
    /\ sample \in SampleInputs
    /\ LET targetValue == TargetValue(sample.useDoubleDQN, sample.reward, sample.done,
                                      sample.nextPolicyQ, sample.nextTargetQ)
       IN sample' = [ sample EXCEPT
                        !.computed = TRUE,
                        !.targetValue = targetValue,
                        !.tdError = Abs(targetValue - sample.currentQ[sample.action]),
                        !.targets = TargetVector(sample.currentQ, sample.action,
                                                 targetValue) ]
    /\ UNCHANGED <<api, driver, timers, hist, outcome, agent, alog>>
    /\ UNCHANGED ctlVars

InitTarget ==
    /\ api = GameAPIConstructor
    /\ driver = DriverInit
    /\ timers = TimersInit
    /\ hist = HistInit
    /\ outcome = "ok"
    /\ agent = DQNAgentConstructor(TRUE)
    /\ alog = AgentLogInit
    /\ sample \in SampleInputs
    /\ CtlIdle

NextTarget == ComputeTarget

SpecTarget == InitTarget /\ [][NextTarget]_vars

\* A controller in a browser that holds no checkpoint, or one of a new agent.
InitCtl ==
    /\ api = GameAPIConstructor
    /\ driver = DriverInit
    /\ timers = TimersInit
    /\ hist = HistInit
    /\ outcome = "ok"
    /\ agent = DQNAgentConstructor(TRUE)
    /\ alog = AgentLogInit
    /\ sample = SampleInit
    /\ ctl = RLControllerConstructor
    /\ loops = << >>
    /\ store \in { StoreEmpty,
                   [ StoreEmpty EXCEPT
                       !.hasModel = TRUE,
                       !.metadata = Metadata(DQNAgentConstructor(TRUE)) ] }
    /\ clog = CtlLogInit

\* What an earlier session left in the durable store: nothing, or the checkpoint
\* of an agent that finished one episode (resetTraining removed the statistics
\* and left the checkpoint).
TrainedCheckpoint ==
    [ StoreEmpty EXCEPT
        !.hasModel = TRUE,
        !.weights = FitStep,
        !.metadata = Metadata(DecayEpsilon([DQNAgentConstructor(TRUE) EXCEPT
                                              !.episodeCount = 1])) ]

InitStored ==
    /\ api = GameAPIConstructor
    /\ driver = DriverInit
    /\ timers = TimersInit
    /\ hist = HistInit
    /\ outcome = "ok"
    /\ agent = DQNAgentConstructor(TRUE)
    /\ alog = AgentLogInit
    /\ sample = SampleInit
    /\ ctl = RLControllerConstructor
    /\ loops = << >>
    /\ store \in {StoreEmpty, TrainedCheckpoint}
    /\ clog = CtlLogInit

\* resetTraining() around one training run.
NextReset ==
    \/ StartTraining(ResetLimits)
    \/ ResetTraining(ResetLimits)
    \/ Pause
    \/ Resume
    \/ \E b \in BOOLEAN : Settle(1, b)

SpecReset == InitStored /\ [][NextReset]_vars

\* ------------------------------------------------- the state vector
\* Bound of SpecState: the largest number of fruits of one level in the world.
MaxFruitsPerLevel == 11

\* Numbers of the encoding; components are kept in thousandths.
stateSize == 20
Unit == 1000
Min(a, b) == IF a <= b THEN a ELSE b
gameWorldHeight == 1000

\* The driver as getGameState() reads it: world.bodies with label 'fruit' and
\* the game's fields.
FruitLevels == 0..9
Fruits(level, n, y) == [i \in 1..n |-> [fruitLevel |-> level, y |-> y]]
Worlds ==
    {<< >>} \cup { Fruits(l, n, y) : l \in FruitLevels, n \in {1, MaxFruitsPerLevel},
                                      y \in {0, 500, gameWorldHeight} }
GameStates ==
    { [ score |-> sc, currentFruitLevel |-> cl, nextFruitLevel |-> nl, fruits |-> w,
        gameOverLineY |-> 180, elapsed |-> el, boosterAvailable |-> bo,
        isWarningActive |-> wa ] :
        sc \in {0, 5000, 20000}, cl \in {0, 9}, nl \in {0, 9}, w \in Worlds,
        el \in {0, 2500, 9000}, bo \in BOOLEAN, wa \in BOOLEAN }

RECURSIVE SumY(_)
SumY(fruits) == IF fruits = << >> THEN 0 ELSE Head(fruits).y + SumY(Tail(fruits))
RECURSIVE MaxY(_)
MaxY(fruits) == IF fruits = << >> THEN 0 ELSE Max(Head(fruits).y, MaxY(Tail(fruits)))

\* getGameState(): the values getState() uses.
GameState(game) ==
    LET fruitCount == Len(game.fruits)
        maxY == MaxY(game.fruits)
    IN [ score |-> game.score,
         currentFruitLevel |-> game.currentFruitLevel,
         nextFruitLevel |-> game.nextFruitLevel,
         fruitCount |-> fruitCount,
         fruitLevelCounts |->
             [ l \in FruitLevels |->
                 Cardinality({i \in 1..fruitCount : game.fruits[i].fruitLevel = l}) ],
         \* (totalY / fruitCount) / gameWorldHeight
         avgFruitY |-> IF fruitCount > 0
                       THEN (SumY(game.fruits) * Unit) \div (fruitCount * gameWorldHeight)
                       ELSE 0,
         maxFruitY |-> (maxY * Unit) \div gameWorldHeight,
         \* min(1, max(0, 1 - gameOverLineY / (maxY || gameWorldHeight)))
         fillLevel |-> Min(Unit, Max(0,
                           Unit - (game.gameOverLineY * Unit)
                                      \div (IF maxY # 0 THEN maxY ELSE gameWorldHeight))),
         timeSinceLastDrop |-> game.elapsed,
         boosterAvailable |-> game.boosterAvailable,
         warningActive |-> game.isWarningActive ]

\* getState(): the 20 components, index 0 first.
GetState(game) ==
    LET gameState == GameState(game)
    IN [ i \in 0..(stateSize - 1) |->
           CASE i = 0 -> Min((gameState.score * Unit) \div 10000, Unit)
             [] i = 1 -> (gameState.currentFruitLevel * Unit) \div 9
             [] i = 2 -> (gameState.nextFruitLevel * Unit) \div 9
             [] i = 3 -> Min((gameState.fruitCount * Unit) \div 20, Unit)
             [] i = 4 -> gameState.avgFruitY
             [] i = 5 -> gameState.maxFruitY
             [] i \in 6..15 -> (gameState.fruitLevelCounts[i - 6] * Unit) \div 10
             [] i = 16 -> gameState.fillLevel
             [] i = 17 -> Min((gameState.timeSinceLastDrop * Unit) \div 5000, Unit)
             [] i = 18 -> IF gameState.boosterAvailable THEN Unit ELSE 0
             [] i = 19 -> IF gameState.warningActive THEN Unit ELSE 0 ]

StateInputs == {[computed |-> FALSE, game |-> g, state |-> << >>] : g \in GameStates}

\* environment.getState() is called on a driver state.
ComputeState ==
    /\ ~sample.computed
    /\ sample \in StateInputs
    /\ sample' = [sample EXCEPT !.computed = TRUE, !.state = GetState(sample.game)]
    /\ UNCHANGED <<api, driver, timers, hist, outcome, agent, alog>>
    /\ UNCHANGED ctlVars

InitState ==
    /\ api = [GameAPIConstructor EXCEPT !.gameInstance = TRUE]
    /\ driver = [DriverInit EXCEPT !.hooks = 1]
    /\ timers = TimersInit
    /\ hist = HistInit
    /\ outcome = "ok"
    /\ agent = DQNAgentConstructor(TRUE)
    /\ alog = AgentLogInit
    /\ sample \in StateInputs
    /\ CtlIdle

NextState == ComputeState

SpecState == InitState /\ [][NextState]_vars

\* ------------------------------------------------- the reward
\* Rewards are kept in hundredths, fill levels in thousandths: (fillLevel - 0.8)
\* * 10 is then fillLevel - 800, scoreGained / 100 is scoreGained.
Results ==
    { [ scoreGained |-> sg, mergeCount |-> mc, fillLevel |-> fl, gameOver |-> go,
        maxFruitLevelAchieved |-> mx, previousMaxFruitLevel |-> pv ] :
        sg \in {-50, 0, 50}, mc \in {-1, 0, 1, 2}, fl \in {500, 800, 900, 1000},
        go \in BOOLEAN, mx \in {-1, 0, 3}, pv \in {-1, 0, 3} }

\* Faulty variant of CalculateReward: the score term is added whatever its sign.
CalculateRewardUnguarded(result) ==
    -10
    + result.scoreGained
    + (IF result.mergeCount > 0 THEN result.mergeCount * 200 ELSE 0)
    - (IF result.fillLevel > 800 THEN result.fillLevel - 800 ELSE 0)
    - (IF result.gameOver THEN 10000 ELSE 0)
    + (IF result.maxFruitLevelAchieved > result.previousMaxFruitLevel
       THEN (result.maxFruitLevelAchieved - result.previousMaxFruitLevel) * 1000
       ELSE 0)

\* calculateReward(result)
CalculateReward(result) ==
    -10
    + (IF result.scoreGained > 0 THEN result.scoreGained ELSE 0)
    + (IF result.mergeCount > 0 THEN result.mergeCount * 200 ELSE 0)
    - (IF result.fillLevel > 800 THEN result.fillLevel - 800 ELSE 0)
    - (IF result.gameOver THEN 10000 ELSE 0)
    + (IF result.maxFruitLevelAchieved > result.previousMaxFruitLevel
       THEN (result.maxFruitLevelAchieved - result.previousMaxFruitLevel) * 1000
       ELSE 0)

RewardInputs == {[computed |-> FALSE, result |-> r, reward |-> 0] : r \in Results}

\* environment.calculateReward(result) is called on the result of an action.
ComputeReward ==
    /\ ~sample.computed
    /\ sample \in RewardInputs
    /\ sample' = [sample EXCEPT !.computed = TRUE,
                                !.reward = CalculateReward(sample.result)]
    /\ UNCHANGED <<api, driver, timers, hist, outcome, agent, alog>>
    /\ UNCHANGED ctlVars

InitReward ==
    /\ api = [GameAPIConstructor EXCEPT !.gameInstance = TRUE]
    /\ driver = [DriverInit EXCEPT !.hooks = 1]
    /\ timers = TimersInit
    /\ hist = HistInit
    /\ outcome = "ok"
    /\ agent = DQNAgentConstructor(TRUE)
    /\ alog = AgentLogInit
    /\ sample \in RewardInputs
    /\ CtlIdle

NextReward == ComputeReward

SpecReward == InitReward /\ [][NextReward]_vars

\* ------------------------------------------------- prioritized sampling
\* Bound of SpecSampling: the number of experiences in the buffer.
MaxBuffer == 3

\* Exponents are kept in halves (1 is 1/2, 2 is 1) and priorities are fourth
\* powers, so that every power below is a whole number or a fraction of whole
\* numbers. perAlpha's default 0.6 is the exponent 1/2 here.
perAlphaDefault == 1
AlphaConfigs ==
    {[given |-> FALSE, value |-> 0]} \cup {[given |-> TRUE, value |-> a] : a \in 0..2}
Betas == {1, 2}
PriorityValues == {1, 16, 256}

\* this.perAlpha = config.perAlpha || 0.6
PerAlpha(config) ==
    IF config.given /\ config.value # 0 THEN config.value ELSE perAlphaDefault

Sqrt(n) == CHOOSE r \in 0..n : r * r = n
\* Math.pow(p, e) for e in halves.
Pow(p, e) == CASE e = 0 -> 1 [] e = 1 -> Sqrt(p) [] e = 2 -> p

RECURSIVE Gcd(_, _)
Gcd(a, b) == IF b = 0 THEN a ELSE Gcd(b, a % b)
\* Fractions <<numerator, denominator>> in lowest terms.
Frac(n, d) == <<n \div Gcd(n, d), d \div Gcd(n, d)>>
FracLeq(x, y) == x[1] * y[2] <= y[1] * x[2]
FracOne == <<1, 1>>

RECURSIVE SeqSum(_)
SeqSum(seq) == IF seq = << >> THEN 0 ELSE Head(seq) + SeqSum(Tail(seq))
SeqMin(seq) == CHOOSE m \in Range(seq) : \A x \in Range(seq) : m <= x

\* sampleBatch: probabilities[i] = p_i^alpha / totalPriority.
Probabilities(priorities, alpha) ==
    LET powered == [i \in 1..Len(priorities) |-> Pow(priorities[i], alpha)]
    IN [i \in 1..Len(priorities) |-> Frac(powered[i], SeqSum(powered))]

\* Faulty variant of ImportanceWeight: maxWeight is computed from the largest
\* probability of the buffer.
ImportanceWeightMaxProb(priorities, alpha, beta, idx) ==
    LET powered == [i \in 1..Len(priorities) |-> Pow(priorities[i], alpha)]
        total == SeqSum(powered)
        nProb == Frac(Len(priorities) * powered[idx], total)
        nMaxProb == Frac(Len(priorities) * SeqMax(powered), total)
        quotient == Frac(nMaxProb[1] * nProb[2], nMaxProb[2] * nProb[1])
    IN Frac(Pow(quotient[1], beta), Pow(quotient[2], beta))

\* sampleBatch: weight = (N * prob)^(-beta) / maxWeight with
\* maxWeight = (N * minProb)^(-beta), minProb taken over the whole buffer. The
\* quotient of the two powers is computed as the power of the quotient
\* (N * minProb) / (N * prob).
ImportanceWeight(priorities, alpha, beta, idx) ==
    LET powered == [i \in 1..Len(priorities) |-> Pow(priorities[i], alpha)]
        total == SeqSum(powered)
        nProb == Frac(Len(priorities) * powered[idx], total)
        nMinProb == Frac(Len(priorities) * SeqMin(powered), total)
        quotient == Frac(nMinProb[1] * nProb[2], nMinProb[2] * nProb[1])
    IN Frac(Pow(quotient[1], beta), Pow(quotient[2], beta))

RECURSIVE SeqsUpTo(_)
SeqsUpTo(n) ==
    IF n = 0 THEN {} ELSE SeqsUpTo(n - 1) \cup [1..n -> PriorityValues]

SamplingInputs ==
    { [ computed |-> FALSE, config |-> c, priorities |-> ps, beta |-> b,
        indices |-> {}, probabilities |-> << >>, weights |-> << >> ] :
        c \in AlphaConfigs, ps \in SeqsUpTo(MaxBuffer), b \in Betas }

\* sampleBatch(batchSize) of an agent with usePER and a buffer that is not empty.
SampleBatchPER ==
    /\ ~sample.computed
    /\ sample \in SamplingInputs
    /\ LET alpha == PerAlpha(sample.config)
           n == Len(sample.priorities)
       IN \E indices \in {x \in SUBSET (1..n) : Cardinality(x) = Min(BatchSize, n)} :
            sample' = [ sample EXCEPT
                          !.computed = TRUE,
                          !.indices = indices,
                          !.probabilities = Probabilities(sample.priorities, alpha),
                          !.weights =
                              [ i \in 1..n |->
                                  IF i \in indices
                                  THEN ImportanceWeight(sample.priorities, alpha,
                                                        sample.beta, i)
                                  ELSE <<0, 1>> ] ]
    /\ UNCHANGED <<api, driver, timers, hist, outcome, agent, alog>>
    /\ UNCHANGED ctlVars

InitSampling ==
    /\ api = GameAPIConstructor
    /\ driver = DriverInit
    /\ timers = TimersInit
    /\ hist = HistInit
    /\ outcome = "ok"
    /\ agent = DQNAgentConstructor(TRUE)
    /\ alog = AgentLogInit
    /\ sample \in SamplingInputs
    /\ CtlIdle

NextSampling == SampleBatchPER

SpecSampling == InitSampling /\ [][NextSampling]_vars

\* ------------------------------------------------- episode statistics
\* Bound of SpecStats: the number of episodes run.
MaxEpisodesRun == 102

StatsLimits == [episodes |-> MaxEpisodesRun, resets |-> 1]

\* The length of the rolling windows recentScores and recentRewards.
RecentWindow == 100

\* this.stats as the constructor and resetTraining build it (the fields the
\* episode end updates).
StatsInit ==
    [ totalEpisodes |-> 0,
      bestScore     |-> 0,
      recentScores  |-> << >>,
      recentRewards |-> << >> ]

\* push(x), then shift() when the window got longer than RecentWindow.
PushRecent(window, x) ==
    LET w == Append(window, x)
    IN IF Len(w) > RecentWindow THEN Tail(w) ELSE w

\* Faulty variant of RunEpisodeStats: an over-long window drops its newest
\* entry (pop) where the code drops the oldest (shift).
RunEpisodeStatsPop(stats, finalScore, totalReward) ==
    LET push(window, x) == IF Len(window) >= RecentWindow THEN window
                           ELSE Append(window, x)
    IN [ stats EXCEPT
           !.totalEpisodes = stats.totalEpisodes + 1,
           !.recentScores  = push(stats.recentScores, finalScore),
           !.recentRewards = push(stats.recentRewards, totalReward),
           !.bestScore     = IF finalScore > stats.bestScore THEN finalScore
                             ELSE stats.bestScore ]

\* runEpisode after agent.endEpisode(): the statistics of the episode.
RunEpisodeStats(stats, finalScore, totalReward) ==
    [ stats EXCEPT
        !.totalEpisodes = stats.totalEpisodes + 1,
        !.recentScores  = PushRecent(stats.recentScores, finalScore),
        !.recentRewards = PushRecent(stats.recentRewards, totalReward),
        !.bestScore     = IF finalScore > stats.bestScore THEN finalScore
                          ELSE stats.bestScore ]

\* What the episodes give: the final score and the summed reward (hundredths)
\* of the n-th episode run, one course of events per pattern. Scores are never
\* negative and go up and down; rewards take both signs.
Patterns == {[k |-> k, m |-> 5] : k \in 0..2}
ScoreOf(pattern, n) == ((n * n + pattern.k) % pattern.m) * 10
RewardOf(pattern, n) == ((n + pattern.k) % 3) * 100 - 110

\* The statistics next to the list of the episodes run since the last
\* resetTraining (their final scores and summed rewards, oldest first).
StatsInputs ==
    { [ stats |-> StatsInit, pattern |-> pt, runs |-> 0, resets |-> 0,
        scores |-> << >>, rewards |-> << >> ] : pt \in Patterns }

\* An episode ends: runEpisode updates the statistics.
EpisodeStats(L) ==
    /\ sample.runs < L.episodes
    /\ LET n           == sample.runs + 1
           finalScore  == ScoreOf(sample.pattern, n)
           totalReward == RewardOf(sample.pattern, n)
       IN sample' = [ sample EXCEPT
                        !.stats   = RunEpisodeStats(sample.stats, finalScore, totalReward),
                        !.runs    = n,
                        !.scores  = Append(sample.scores, finalScore),
                        !.rewards = Append(sample.rewards, totalReward) ]
    /\ UNCHANGED <<api, driver, timers, hist, outcome, agent, alog>>
    /\ UNCHANGED ctlVars

\* resetTraining(): the statistics start again from zero.
ResetTrainingStats(L) ==
    /\ sample.resets < L.resets
    /\ sample' = [ sample EXCEPT !.stats = StatsInit,
                                 !.resets = sample.resets + 1,
                                 !.scores = << >>,
                                 !.rewards = << >> ]
    /\ UNCHANGED <<api, driver, timers, hist, outcome, agent, alog>>
    /\ UNCHANGED ctlVars

InitStats ==
    /\ api = [GameAPIConstructor EXCEPT !.gameInstance = TRUE]
    /\ driver = [DriverInit EXCEPT !.hooks = 1]
    /\ timers = TimersInit
    /\ hist = HistInit
    /\ outcome = "ok"
    /\ agent = DQNAgentConstructor(TRUE)
    /\ alog = AgentLogInit
    /\ sample \in StatsInputs
    /\ CtlIdle

NextStats ==
    \/ EpisodeStats(StatsLimits)
    \/ ResetTrainingStats(StatsLimits)

SpecStats == InitStats /\ [][NextStats]_vars

\* The agent after remember() was called n times on the fresh object.
RECURSIVE AfterRemember(_)
AfterRemember(n) ==
    IF n = 0 THEN DQNAgentConstructor(FALSE) ELSE Remember(AfterRemember(n - 1), n)

\* The agent's persistence: an agent with a batch of experiences that trains,
\* saves and loads, over a store that is empty or holds what an earlier session
\* left (a checkpoint with its metadata, one without, one whose metadata record
\* is unreadable).
InitPersist ==
    /\ api = GameAPIConstructor
    /\ driver = DriverInit
    /\ timers = TimersInit
    /\ hist = HistInit
    /\ outcome = "ok"
    /\ agent = AfterRemember(BatchSize)
    /\ alog = [ AgentLogInit EXCEPT !.remembered = BatchSize,
                                    !.sinceDispose = BatchSize,
                                    !.lastOp = "remember" ]
    /\ sample = SampleInit
    /\ ctl = RLControllerConstructor
    /\ loops = << >>
    /\ store \in { StoreEmpty, TrainedCheckpoint,
                   [TrainedCheckpoint EXCEPT !.metadata = NoMetadata],
                   [TrainedCheckpoint EXCEPT !.metadata = Corrupt] }
    /\ clog = CtlLogInit

NextPersist ==
    \/ ReplayBegin
    \/ \E fitOk \in BOOLEAN : ReplayEnd(fitOk)
    \/ EndEpisode
    \/ SaveModel
    \/ LoadModel
    \/ \E t \in 1..(MaxSaves + MaxLoads) : SaveModelSettle(t) \/ LoadModelSettle(t)

SpecPersist == InitPersist /\ [][NextPersist]_vars

\* The target network's synchronisation: an agent with a batch of experiences,
\* built with or without soft updates, that trains and ends episodes.
InitSync ==
    /\ api = GameAPIConstructor
    /\ driver = DriverInit
    /\ timers = TimersInit
    /\ hist = HistInit
    /\ outcome = "ok"
    /\ \E soft \in BOOLEAN :
          agent = [AfterRemember(BatchSize) EXCEPT !.useSoftUpdate = soft]
    /\ alog = [ AgentLogInit EXCEPT !.remembered = BatchSize,
                                    !.sinceDispose = BatchSize,
                                    !.lastOp = "remember" ]
    /\ sample = SampleInit
    /\ CtlIdle

NextSync ==
    \/ DoRemember
    \/ ReplayBegin
    \/ \E fitOk \in BOOLEAN : ReplayEnd(fitOk)
    \/ EndEpisode

SpecSync == InitSync /\ [][NextSync]_vars

\* Training runs that are stopped and started again, with pause() and resume().
NextCtl ==
    \/ StartTraining(CtlLimits)
    \/ StopTraining(CtlLimits)
    \/ Pause
    \/ Resume
    \/ \E t \in 1..(MaxTrainStarts + MaxStops), b \in BOOLEAN : Settle(t, b)

SpecCtl == InitCtl /\ [][NextCtl]_vars

\* Training and playback on one controller, with every public operation.
NextModes ==
    \/ StartTraining(ModeLimits)
    \/ StartPlayback(ModeLimits)
    \/ StopTraining(ModeLimits)
    \/ StopPlayback
    \/ Pause
    \/ Resume
    \/ ResetTraining(ModeLimits)
    \/ \E t \in 1..(1 + MaxPlayStarts + MaxStops), b \in BOOLEAN : Settle(t, b)

SpecModes == InitCtl /\ [][NextModes]_vars

\* Playback on the real scheduler: the game binds the API, the host switches
\* modes, timers and the manual loop run, and the controller plays.
NextPlay ==
    \/ InitGame(PlayLimits)
    \/ \E en \in BOOLEAN : SetFastForwardMode(PlayLimits, en)
    \/ RunLoopTimer(PlayLimits)
    \/ DropTimerFire
    \/ ResetTimerFire
    \/ StartPlayback(PlayLimits)
    \/ StopPlayback
    \/ Pause
    \/ Resume
    \/ \E b \in BOOLEAN, e \in BOOLEAN, a \in BestActions :
           PlaybackSettle(PlayLimits, 1, b, e, a)

SpecPlay == InitCtl /\ [][NextPlay]_vars

\* One training run with pause() and resume(), never stopped.
NextTrain ==
    \/ StartTraining(TrainLimits)
    \/ Pause
    \/ Resume
    \/ \E b \in BOOLEAN : Settle(1, b)

SpecTrain == InitCtl /\ [][NextTrain]_vars

InitAgent ==
    /\ api = GameAPIConstructor
    /\ driver = DriverInit
    /\ timers = TimersInit
    /\ hist = HistInit
    /\ outcome = "ok"
    /\ \E usePER \in BOOLEAN : agent = DQNAgentConstructor(usePER)
    /\ alog = AgentLogInit
    /\ sample = SampleInit
    /\ CtlIdle

NextAgent ==
    \/ DoRemember
    \/ ReplayBegin
    \/ \E fitOk \in BOOLEAN : ReplayEnd(fitOk)
    \/ Dispose
    \/ EndEpisode

SpecAgent == InitAgent /\ [][NextAgent]_vars

\* ------------------------------------------------------------ specification
Init ==
    /\ api = GameAPIConstructor
    /\ driver = DriverInit
    /\ timers = TimersInit
    /\ hist = HistInit
    /\ outcome = "ok"
    /\ agent = DQNAgentConstructor(TRUE)
    /\ alog = AgentLogInit
    /\ sample = SampleInit
    /\ CtlIdle

Next ==
    \/ InitGame(Limits)
    \/ GetGameState
    \/ \E p \in Positions : ExecuteAction(Limits, p)
    \/ \E e \in BOOLEAN : ResetGame(Limits, e)
    \/ IsGameOver
    \/ \E en \in BOOLEAN : SetFastForwardMode(Limits, en)
    \/ RunLoopTimer(Limits)
    \/ DropTimerFire
    \/ ResetTimerFire
    \/ RunnerTick

Spec == Init /\ [][Next]_vars

\* The scheduler kept in accelerated mode: setFastForwardMode(true) was called on
\* the fresh object (it records the flag before init), the game then binds it.
InitAccel ==
    /\ api = [GameAPIConstructor EXCEPT !.fastForwardMode = TRUE]
    /\ driver = DriverInit
    /\ timers = TimersInit
    /\ hist = HistInit
    /\ outcome = "ok"
    /\ agent = DQNAgentConstructor(TRUE)
    /\ alog = AgentLogInit
    /\ sample = SampleInit
    /\ CtlIdle

NextAccel ==
    \/ InitGame(AccelLimits)
    \/ \E p \in Positions : ExecuteAction(AccelLimits, p)
    \/ \E e \in BOOLEAN : ResetGame(AccelLimits, e)
    \/ RunLoopTimer(AccelLimits)

SpecAccel == InitAccel /\ [][NextAccel]_vars

\* The environment wrapper driving an interactive game: step() calls with valid
\* and invalid indices, the 800 ms timers and the runner's frames.
ActionInputs == {-1, 0, actionSize - 1, actionSize}
EnvLimits == [actions |-> MaxEnvSteps, resets |-> 0, step |-> MaxRunnerStep]

NextEnv ==
    \/ InitGame(EnvLimits)
    \/ \E action \in ActionInputs : EnvStep(EnvLimits, action)
    \/ DropTimerFire
    \/ RunnerTick

SpecEnv == Init /\ [][NextEnv]_vars

\* ------------------------------------------------------------------- claims

\* C1: in accelerated mode, an action whose drop cooldown was armed to
\* DROP_COOLDOWN_STEPS and is still waiting has seen fewer than that many
\* onSimulationStep notifications (the counter holds what is left); a resolved
\* action was resolved by the step handler at exactly the DROP_COOLDOWN_STEPS-th
\* notification after its arming; and no action is resolved more than once,
\* however many notifications follow.
C1_CooldownResolvesAtCthStep ==
    \A a \in Enqueued :
        /\ (api.actionResolveCallback = a /\ hist.arm[a] = "steps")
               => /\ ~Resolved(a)
                  /\ hist.armNotifs < DROP_COOLDOWN_STEPS
                  /\ api.dropCooldownCounter = DROP_COOLDOWN_STEPS - hist.armNotifs
        /\ Resolved(a)
               => /\ hist.arm[a] = "steps"
                  /\ hist.resBy[a] = "step"
                  /\ hist.resNotifs[a] = DROP_COOLDOWN_STEPS
        /\ Count(hist.resolved, a) <= 1

\* C1 witness: an action was resolved by the 25th notification and further
\* notifications have arrived since without resolving it again.
C1_Witness ==
    \E a \in Enqueued :
        /\ hist.resNotifs[a] = DROP_COOLDOWN_STEPS
        /\ api.simulationStep > hist.resStep[a]
        /\ Count(hist.resolved, a) = 1

\* C2: with the afterUpdate hook and the manual loop both calling
\* onSimulationStep for a physics tick, the cooldown is decremented once per
\* tick: an action resolved by the step handler has waited exactly
\* DROP_COOLDOWN_STEPS physics ticks, never fewer.
C2_OneDecrementPerTick ==
    \A a \in Enqueued :
        hist.resBy[a] = "step" => hist.resTicks[a] = DROP_COOLDOWN_STEPS

\* C3: promises are resolved in the order of the executeAction calls, drops are
\* released in that order, and an action that had to wait in the queue is
\* released by the resolution of the action enqueued just before it; nothing
\* enqueued earlier is still queued or in flight when an action is released.
C3_ResolveInEnqueueOrder ==
    /\ Increasing(hist.resolved)
    /\ Increasing(driver.dropped)
    /\ \A a \in Enqueued :
         /\ hist.relTrigger[a] > 0
                => hist.relTrigger[a] = a - 1 /\ Resolved(a - 1)
         /\ Released(a)
                => \A b \in 1..(a - 1) :
                       ~Queued(b) /\ api.actionResolveCallback # b

\* C3 witness: A, B and C were all enqueued before A resolved, and all three
\* have resolved, in that order.
C3_Witness ==
    /\ hist.resolved = <<1, 2, 3>>
    /\ hist.enqAt[2] = 0
    /\ hist.enqAt[3] = 0

\* C4: at most one released action is unresolved at any moment.
C4_SingleInFlight ==
    Cardinality({a \in Enqueued : Released(a) /\ ~Resolved(a)}) <= 1

\* C5: no action is aborted without resolving: every promise handed out by
\* executeAction is resolved, or its resolve function is still held by the
\* queue or by actionResolveCallback (so that steps or timers can resolve it).
C5_NoActionAbandoned ==
    \A a \in Enqueued :
        Resolved(a) \/ Queued(a) \/ api.actionResolveCallback = a

\* C6: in accelerated mode every resetGame empties the queue, calls
\* handleRestart once and arms resetCooldownCounter to RESET_COOLDOWN_STEPS
\* (fewer than the drop cooldown); while its promise is the one waiting, fewer
\* than RESET_COOLDOWN_STEPS notifications have arrived; it is resolved at
\* exactly the RESET_COOLDOWN_STEPS-th notification, and never twice.
C6_ResetResolvesAtCooldown ==
    /\ RESET_COOLDOWN_STEPS < DROP_COOLDOWN_STEPS
    /\ \A r \in ResetsCalled :
         /\ hist.resetQueueLen[r] = 0
         /\ hist.resetRestarts[r] = 1
         /\ hist.resetCounterAt[r] = RESET_COOLDOWN_STEPS
         /\ api.resetResolveCallback = r
                => /\ ~ResetResolved(r)
                   /\ hist.resetNotifs < RESET_COOLDOWN_STEPS
                   /\ api.resetCooldownCounter = RESET_COOLDOWN_STEPS - hist.resetNotifs
         /\ ResetResolved(r) => hist.resetResNotifs[r] = RESET_COOLDOWN_STEPS
         /\ Count(hist.resetResolved, r) <= 1

\* C6 witness: a reset was resolved by the notification that brought its
\* counter to zero.
C6_Witness ==
    \E r \in ResetsCalled :
        /\ ResetResolved(r)
        /\ hist.resetResNotifs[r] = RESET_COOLDOWN_STEPS
        /\ api.resetCooldownCounter = 0

\* C7 (as claimed): every operation invoked before init() fails with the
\* not-initialized error and leaves the scheduler's state unchanged.
C7_AllFailBeforeInit ==
    [][ (~api.gameInstance /\ ~api'.gameInstance)
            => (outcome' = "NotInitialized" /\ api' = api) ]_vars

\* C7 (amended): before init(), getGameState, executeAction and resetGame fail
\* with the not-initialized error and change nothing; isGameOver returns
\* without error and changes nothing; setFastForwardMode returns without error
\* and records the requested mode in fastForwardMode, changing nothing else.
C7_BeforeInit ==
    [][ ~api.gameInstance =>
          /\ ( \/ GetGameState
               \/ \E p \in Positions : ExecuteAction(Limits, p)
               \/ \E e \in BOOLEAN : ResetGame(Limits, e) )
                 => /\ outcome' = "NotInitialized"
                    /\ UNCHANGED <<api, driver, timers, hist>>
          /\ IsGameOver
                 => /\ outcome' = "ok"
                    /\ UNCHANGED <<api, driver, timers, hist>>
          /\ \A en \in BOOLEAN :
               SetFastForwardMode(Limits, en)
                 => /\ outcome' = "ok"
                    /\ api' = [api EXCEPT !.fastForwardMode = en]
                    /\ UNCHANGED <<driver, timers, hist>> ]_vars

\* C7 witness: still unbound, an operation has failed with the not-initialized
\* error and setFastForwardMode(true) has been recorded.
C7_Witness ==
    /\ ~api.gameInstance
    /\ outcome = "NotInitialized"
    /\ api.fastForwardMode

\* C8: GameEnvironment.step(action) with an action index outside
\* [0, actionSize) is rejected and nothing is forwarded to the scheduler, so
\* every position step() has handed to executeAction, and every position waiting
\* in the action queue, comes from an index inside the range, i.e. lies strictly
\* between 0 and 1 (numerator between 1 and 2 * actionSize - 1).
ValidPosition(position) == 0 < position /\ position < 2 * actionSize

C8_InvalidActionNotForwarded ==
    /\ \A position \in hist.stepForwarded : ValidPosition(position)
    /\ \A i \in 1..Len(api.actionQueue) : ValidPosition(api.actionQueue[i].position)

\* C9: the replay buffer never grows beyond memorySize, and it always holds the
\* most recent min(n, memorySize) experiences in insertion order, n being the
\* number of remember calls since the buffer was last emptied; with and without
\* prioritized replay.
C9_BufferKeepsMostRecent ==
    LET n == alog.sinceDispose
        m == IF n < agent.memorySize THEN n ELSE agent.memorySize
    IN /\ Len(agent.memory) <= agent.memorySize
       /\ Len(agent.memory) = m
       /\ \A i \in 1..m : agent.memory[i] = alog.remembered - m + i

\* A remember has arrived at a full buffer: capacity plus one experiences were
\* inserted and the buffer holds all but the first.
C9_Witness ==
    /\ alog.sinceDispose = agent.memorySize + 1
    /\ alog.remembered = alog.sinceDispose
    /\ Len(agent.memory) = agent.memorySize
    /\ agent.memory[1] = 2
    /\ agent.memory[agent.memorySize] = agent.memorySize + 1

\* C10: with prioritized replay enabled the priorities sequence is as long as
\* the buffer and priorities[i] is the priority of the experience memory[i]:
\* the one remember gave it, or the one the last replay that sampled it wrote.
C10_PrioritiesAligned ==
    agent.usePER =>
        /\ Len(agent.priorities) = Len(agent.memory)
        /\ \A i \in 1..Len(agent.memory) :
               agent.priorities[i] = alog.prioOf[agent.memory[i]]

\* Prioritized replay after an eviction and a write-back: the buffer is full, its
\* head was evicted, and a replay has given a sampled entry a priority that
\* differs from a neighbour's.
C10_Witness ==
    /\ agent.usePER
    /\ alog.remembered > agent.memorySize
    /\ Len(agent.memory) = agent.memorySize
    /\ alog.sampled # {}
    /\ \E i, j \in 1..Len(agent.priorities) :
          /\ i \in alog.sampled
          /\ j \notin alog.sampled
          /\ agent.priorities[i] # agent.priorities[j]

\* C11: with prioritized replay enabled, remember gives the new experience
\* priority 1.0 when the buffer is empty and otherwise the maximum priority in the
\* buffer, so right after remember no stored experience has a higher priority
\* than the newest one.
C11_NewestHasMaxPriority ==
    (agent.usePER /\ alog.lastOp = "remember") =>
        LET n == Len(agent.priorities)
        IN /\ n > 0
           /\ agent.memory[n] = alog.remembered
           /\ \A i \in 1..n : agent.priorities[i] <= agent.priorities[n]
           /\ alog.sinceDispose = 1 => agent.priorities[n] = InitialPriority

\* remember has just stored an experience while a replayed one held a priority
\* above 1.0 and the buffer was full: the newest entry carries that maximum.
C11_Witness ==
    /\ agent.usePER
    /\ alog.lastOp = "remember"
    /\ alog.remembered > agent.memorySize
    /\ agent.priorities[Len(agent.priorities)] > InitialPriority
    /\ \E i \in 1..Len(agent.priorities) : agent.priorities[i] < InitialPriority

\* C12: across endEpisode calls the exploration rate never falls below
\* epsilonMin (each episode applies epsilon <- max(epsilonMin, epsilon * decay)).
C12_EpsilonNotBelowMin == agent.epsilon >= agent.epsilonMin

\* The part of C12 the code keeps: epsilon never increases.
C12_EpsilonNonIncreasing == [][agent'.epsilon <= agent.epsilon]_vars

\* C13: across completed learning steps the current learning rate never falls
\* below learningRateMin (it decays geometrically down to that floor).
C13_LearningRateNotBelowMin == agent.currentLearningRate >= agent.learningRateMin

\* The part of C13 the code keeps: the learning rate never increases.
C13_LearningRateNonIncreasing ==
    [][agent'.currentLearningRate <= agent.currentLearningRate]_vars

\* C14: the target of a sampled experience is its reward when done, and
\* otherwise reward + gamma * targetNet(next)[a] for an action a that maximises
\* policyNet(next) in double-DQN mode, reward + gamma * max targetNet(next) in
\* standard mode; the fitted vector is the policy network's current Q-values
\* with only the taken action's slot replaced by that target.
C14_TargetAsSpecified ==
    sample.computed =>
        /\ sample.done => sample.targetValue = sample.reward
        /\ (~sample.done /\ sample.useDoubleDQN) =>
              \E a \in QActions :
                 /\ \A b \in QActions : sample.nextPolicyQ[b] <= sample.nextPolicyQ[a]
                 /\ sample.targetValue * gammaDen =
                        sample.reward * gammaDen + gammaNum * sample.nextTargetQ[a]
        /\ (~sample.done /\ ~sample.useDoubleDQN) =>
              /\ \E a \in QActions :
                    sample.targetValue * gammaDen =
                        sample.reward * gammaDen + gammaNum * sample.nextTargetQ[a]
              /\ \A a \in QActions :
                    sample.targetValue * gammaDen >=
                        sample.reward * gammaDen + gammaNum * sample.nextTargetQ[a]
        /\ DOMAIN sample.targets = QActions
        /\ sample.targets[sample.action] = sample.targetValue
        /\ \A a \in QActions \ {sample.action} : sample.targets[a] = sample.currentQ[a]

\* A non-terminal double-DQN sample where the policy network's best next action
\* is not the target network's best one, so the target differs from the
\* standard-mode one, and the untouched slot keeps a Q-value unlike the target.
C14_Witness ==
    /\ sample.computed
    /\ ~sample.done
    /\ sample.useDoubleDQN
    /\ \E a \in QActions :
          sample.nextTargetQ[a] > sample.nextTargetQ[ArgMax(sample.nextPolicyQ)]
    /\ \E a \in QActions \ {sample.action} : sample.targets[a] # sample.targetValue

\* C15: isTraining and isPlaying are never both true, for every interleaving
\* of startTraining, startPlayback, stopTraining and stopPlayback.
C15_OneModeAtATime == ~(ctl.isTraining /\ ctl.isPlaying)

TrainingLoops == {t \in 1..Len(loops) : loops[t].kind = "train"}

\* C16: a startTraining(E, M) run that is never stopped has run exactly E
\* episodes when it ends, however pause() and resume() were interleaved; a loop
\* iteration that found the pause flag set did not advance the episode index.
C16_ExactlyEEpisodes ==
    \A t \in TrainingLoops :
        /\ loops[t].pc = "done" =>
              /\ loops[t].episodesRun = loops[t].episodes
              /\ loops[t].episode = loops[t].episodes
        /\ loops[t].pc = "pause" => loops[t].episode = loops[t].episodesRun
        /\ loops[t].episodesRun <= loops[t].episodes

\* A run that idled at the head of its loop while paused and then completed.
C16_Witness ==
    \E t \in TrainingLoops :
        /\ loops[t].pc = "done"
        /\ loops[t].idled
        /\ loops[t].episodesRun = loops[t].episodes

\* C17: with no terminal state and no pause (and no stop), every episode of
\* startTraining(E, M) performs exactly M steps and stats.totalSteps grows by
\* exactly E * M over the run.
C17_ExactlyEMSteps ==
    \A t \in TrainingLoops :
        (loops[t].pc = "done" /\ ~clog.everPaused /\ ~clog.everStopped
              /\ ~clog.everTerminal) =>
            /\ ~loops[t].shortEpisode
            /\ loops[t].stepsRun = loops[t].episodes * loops[t].maxSteps
            /\ ctl.totalSteps =
                   loops[t].startSteps + loops[t].episodes * loops[t].maxSteps
            /\ ctl.totalEpisodes = loops[t].episodes

\* A completed run that was never paused and never saw a terminal state.
C17_Witness ==
    \E t \in TrainingLoops :
        /\ loops[t].pc = "done"
        /\ ~clog.everPaused
        /\ ~clog.everTerminal
        /\ ctl.totalSteps = Episodes * MaxSteps

\* C18: whenever a training run has ended, by completing its episodes or by
\* stopTraining(), the checkpoint and statistics save was its final step (the
\* run changed neither agent nor statistics afterwards) and isTraining is false.
TrainingQuiescent ==
    \A t \in 1..Len(loops) :
        loops[t].kind \in {"train", "stop"} => loops[t].pc = "done"

C18_SaveIsFinalStep ==
    (clog.trainStarts > 0 /\ TrainingQuiescent) =>
        (~clog.unsaved /\ ~ctl.isTraining)

\* C19: a checkpoint save or load never starts while a learning step
\* (agent.replay) on the same agent is suspended in flight.
C19_NoPersistDuringReplay == ~clog.saveInReplay

\* C20: remember never runs while a replay call on the same agent is suspended
\* in flight.
C20_NoRememberDuringReplay == ~clog.rememberInReplay

\* C21: a startPlayback() that found no loadable model has returned failure
\* without setting isPlaying, without calling environment.reset() and without
\* playing an action; the scheduler saw exactly the resets of the other calls.
C21_FailedPlaybackDoesNothing ==
    /\ \A t \in 1..Len(loops) :
          (loops[t].kind = "play" /\ loops[t].result = "false")
              => /\ loops[t].pc = "done"
                 /\ ~loops[t].setPlaying
                 /\ ~loops[t].didReset
                 /\ ~loops[t].didStep
    /\ hist.resets <= Cardinality({t \in 1..Len(loops) : loops[t].didReset})
    /\ hist.enqueued > 0 => \E t \in 1..Len(loops) : loops[t].didStep

C21_Witness ==
    \E t \in 1..Len(loops) :
        /\ loops[t].kind = "play" /\ loops[t].result = "false"
        /\ ~store.hasModel /\ api.gameInstance

\* C22: while isPlaying is true the scheduler is in interactive mode
\* (fastForwardMode false).
C22_PlaybackInteractive == ctl.isPlaying => ~api.fastForwardMode

\* C23: a startTraining called right after resetTraining() begins, once its
\* loadModel has settled, with the agent as constructed (counters 0, epsilon
\* initial, empty buffer), zeroed statistics and no stored statistics record.
C23_FreshAfterReset ==
    \A t \in 1..Len(loops) :
        (loops[t].kind = "train" /\ loops[t].afterReset /\ loops[t].loaded)
            => loops[t].beganFresh

\* C24: a loadModel that loaded, undisturbed, the checkpoint a saveModel wrote
\* leaves policy weights, target weights, epsilon, learning rate and the three
\* counters as they were when that saveModel was called.
C24_LoadRestoresSavedInstant ==
    \A t \in Calls("loadModel") :
        (loops[t].result = "true" /\ loops[t].expected # NoSnapshot)
            => loops[t].restored = loops[t].expected

\* C25: a loadModel that returned false assigned nothing new to the agent's
\* networks and metadata.
C25_FailedLoadChangesNothing ==
    \A t \in Calls("loadModel") : loops[t].result = "false" => ~loops[t].changed

\* C26: every one of the 20 components getState() returns lies in [0, 1].
C26_StateInUnitRange ==
    sample.computed => \A i \in 0..(stateSize - 1) :
                          0 <= sample.state[i] /\ sample.state[i] <= Unit

\* The reward as the specification writes it, in hundredths.
ClaimedReward(r) ==
    -10 + r.scoreGained + 200 * r.mergeCount
    - Max(0, r.fillLevel - 800)
    - (IF r.gameOver THEN 10000 ELSE 0)
    + 1000 * Max(0, r.maxFruitLevelAchieved - r.previousMaxFruitLevel)

\* C27 as stated: calculateReward(result) equals the formula for every result.
C27_RewardAsStated ==
    sample.computed => sample.reward = ClaimedReward(sample.result)

\* C27, amended: calculateReward(result) equals -0.1 + max(0, scoreDelta)/100
\* + 2 max(0, mergeCount) - 10 max(0, fillLevel - 0.8) - 100 terminal
\* + 10 max(0, newBestLevel - previousBestLevel); the example gives 2.4; and
\* a terminal result is worth exactly 100 less than the same result not terminal.
C27_RewardAmended ==
    sample.computed =>
        LET r == sample.result
        IN /\ sample.reward =
                 ClaimedReward([r EXCEPT !.scoreGained = Max(0, r.scoreGained),
                                         !.mergeCount = Max(0, r.mergeCount)])
           /\ (r.scoreGained = 50 /\ r.mergeCount = 1 /\ r.fillLevel = 500
                  /\ ~r.gameOver /\ r.maxFruitLevelAchieved = r.previousMaxFruitLevel)
                 => sample.reward = 240
           /\ CalculateReward([r EXCEPT !.gameOver = TRUE])
                 = CalculateReward([r EXCEPT !.gameOver = FALSE]) - 10000

C27_Witness ==
    /\ sample.computed
    /\ sample.result.scoreGained = 50 /\ sample.result.mergeCount = 1
    /\ sample.result.fillLevel = 500 /\ ~sample.result.gameOver
    /\ sample.result.maxFruitLevelAchieved = sample.result.previousMaxFruitLevel
    /\ sample.reward = 240

\* C28: while accelerated mode is enabled on a bound driver the manual loop is
\* running and the driver's runner and rendering are stopped; while interactive
\* mode is enabled the manual loop is stopped and runner and rendering run.
C28_ModeSwitchesDriver ==
    /\ (api.fastForwardMode /\ api.gameInstance)
          => (api.manualLoopRunning /\ ~driver.runnerOn /\ ~driver.renderOn)
    /\ ~api.fastForwardMode
          => (~api.manualLoopRunning /\ driver.runnerOn /\ driver.renderOn)

\* C29: with perAlpha configured to 0 every buffer index has the same sampling
\* probability and every returned importance weight is 1.
C29_AlphaZeroIsUniform ==
    (sample.computed /\ sample.config.given /\ sample.config.value = 0)
        => /\ \A i, j \in 1..Len(sample.priorities) :
                 sample.probabilities[i] = sample.probabilities[j]
           /\ \A i \in sample.indices : sample.weights[i] = FracOne

\* C30 as stated: every returned weight lies in (0, 1] and the largest weight of
\* the returned batch is 1.
C30_LargestBatchWeightIsOne ==
    sample.computed
        => /\ \A i \in sample.indices :
                 sample.weights[i][1] > 0 /\ FracLeq(sample.weights[i], FracOne)
           /\ \E i \in sample.indices : sample.weights[i] = FracOne

\* C30, amended: every returned weight lies in (0, 1]; the weight is 1 exactly
\* for the indices whose priority is the smallest of the whole buffer, so the
\* largest weight of the batch is 1 exactly when the batch holds such an index.
C30_WeightsNormalizedByBuffer ==
    sample.computed
        => \A i \in sample.indices :
              /\ sample.weights[i][1] > 0
              /\ FracLeq(sample.weights[i], FracOne)
              /\ sample.weights[i] = FracOne
                    <=> sample.priorities[i] = SeqMin(sample.priorities)

C30_Witness ==
    /\ sample.computed
    /\ Len(sample.priorities) = MaxBuffer
    /\ \A i \in sample.indices : sample.priorities[i] # SeqMin(sample.priorities)
    /\ \E i \in sample.indices : sample.weights[i] # FracOne

\* C31: once pause() was called during training, no training loop calls
\* environment.reset or environment.step until resume() is called.
C31_PauseHoldsLoop ==
    ~clog.calledWhilePaused

\* tau * policy + (1 - tau) * target, as the claim states the blend.
C32_Blend(policy, target) ==
    (tauNum * policy + (tauDen - tauNum) * target) \div tauDen

\* C32: with soft updates every completed learning step blends the target
\* network once (tau * policy + (1 - tau) * target) and endEpisode leaves it
\* alone; without them endEpisode copies the policy network exactly when the new
\* episodeCount is a multiple of updateTargetEvery and replay leaves the target
\* alone; nothing else in training changes the target network.
C32_TargetSync ==
    [][ IF agent'.trainingSteps = agent.trainingSteps + 1
        THEN agent'.targetModel =
                 IF agent.useSoftUpdate
                 THEN C32_Blend(agent'.model, agent.targetModel)
                 ELSE agent.targetModel
        ELSE IF agent'.episodeCount = agent.episodeCount + 1
        THEN agent'.targetModel =
                 IF ~agent.useSoftUpdate
                    /\ agent'.episodeCount % agent.updateTargetEvery = 0
                 THEN agent.model
                 ELSE agent.targetModel
        ELSE agent'.targetModel = agent.targetModel ]_vars

\* An agent with soft updates that completed two learning steps and an episode:
\* the target network was blended twice and is neither the initial nor the
\* policy network.
C32_Witness ==
    /\ agent.useSoftUpdate
    /\ agent.trainingSteps = 2
    /\ agent.episodeCount >= 1
    /\ agent.model = 2 * FitStep
    /\ agent.targetModel = C32_Blend(2 * FitStep, C32_Blend(FitStep, 0))
    /\ agent.targetModel # agent.model

\* C33: a replay() call on a buffer that holds fewer than batchSize experiences
\* changes nothing of the agent: trainingSteps, the learning rate, the
\* priorities, the buffer and both networks keep their values, and no fit is
\* started.
C33_ShortReplayChangesNothing ==
    [][ ( /\ alog'.lastOp \in {"replay", "replaySkipped"}
          /\ alog'.lastOp # alog.lastOp
          /\ Len(agent.memory) < agent.batchSize )
        => /\ agent' = agent
           /\ alog'.sampled = alog.sampled
           /\ alog'.prioOf = alog.prioOf ]_vars

\* replay() has just returned early on a prioritized buffer that holds
\* experiences, but fewer than a batch.
C33_Witness ==
    /\ alog.lastOp = "replaySkipped"
    /\ agent.usePER
    /\ Len(agent.memory) > 0
    /\ Len(agent.memory) < agent.batchSize
    /\ Len(agent.priorities) = Len(agent.memory)

\* The last n entries of a sequence (all of it when it is shorter).
C34_LastOf(seq, n) ==
    IF Len(seq) <= n THEN seq ELSE SubSeq(seq, Len(seq) - n + 1, Len(seq))

\* What C34 says of the statistics after the episodes run since the last
\* resetTraining.
C34_StatsOf(s) ==
    /\ Len(s.stats.recentScores) <= RecentWindow
    /\ Len(s.stats.recentRewards) <= RecentWindow
    /\ s.stats.recentScores = C34_LastOf(s.scores, RecentWindow)
    /\ s.stats.recentRewards = C34_LastOf(s.rewards, RecentWindow)
    /\ s.stats.bestScore = IF s.scores = << >> THEN 0 ELSE SeqMax(s.scores)
    /\ s.stats.totalEpisodes = Len(s.scores)

\* C34: after every episode recentScores and recentRewards hold the most recent
\* episodes in order, at most 100 of them; bestScore is the largest final score
\* since the last resetTraining and never decreases; totalEpisodes grows by
\* exactly one per episode run.
C34_RollingStats ==
    [][ /\ C34_StatsOf(sample')
        /\ sample'.runs = sample.runs + 1 =>
             /\ sample'.stats.totalEpisodes = sample.stats.totalEpisodes + 1
             /\ sample'.stats.bestScore >= sample.stats.bestScore ]_vars

\* More than 100 episodes were run since the start: the windows are full and
\* have dropped their oldest entries, and the best score is no longer in the
\* score window's last place.
C34_Witness ==
    /\ sample.runs > RecentWindow + 1
    /\ sample.resets = 0
    /\ Len(sample.stats.recentScores) = RecentWindow
    /\ sample.stats.recentScores[RecentWindow] = ScoreOf(sample.pattern, sample.runs)
    /\ sample.stats.recentScores[1] = ScoreOf(sample.pattern, sample.runs - RecentWindow + 1)
    /\ sample.stats.bestScore > sample.stats.recentScores[RecentWindow]

\* The training loops that are inside an episode: awaiting environment.reset,
\* environment.step or agent.replay.
C35_InEpisode ==
    { t \in 1..Len(loops) :
        loops[t].kind = "train" /\ loops[t].pc \in {"reset", "step", "replay"} }

\* C35: at most one training loop is inside an episode at any time, also when
\* startTraining is called after stopTraining before the stopped run's loop has
\* exited.
C35_OneEpisodeLoop ==
    Cardinality(C35_InEpisode) <= 1

\* C36: an action that an 800 ms timer resolves is resolved by the timer that
\* was armed for it: that timer is pending before the step and gone after it.
C36_OwnTimerResolves ==
    [][ \A a \in ActionIds :
          ( /\ ~(a \in Range(hist.resolved))
            /\ a \in Range(hist'.resolved)
            /\ hist'.resBy[a] = "timer" )
          => /\ [kind |-> "drop", id |-> a] \in Range(timers)
             /\ ~([kind |-> "drop", id |-> a] \in Range(timers')) ]_vars

\* C37: once a training run that stopTraining() stopped has fully exited (its
\* loop and the stopTraining call have both returned), the checkpoint metadata
\* in the store equals the agent's counters in memory.
C37_PersistedEqualsMemory ==
    (clog.trainStarts > 0 /\ clog.everStopped /\ TrainingQuiescent) =>
        store.metadata = Metadata(agent)

\* C38: the continuation of GameEnvironment.step (the microtask that runs as
\* soon as the handler that resolved the action has returned, and reads the
\* next state) finds the scheduler at the step at which the action was
\* resolved: no step ran after the resolution in the same handler.
C38_StateReadAtResolution ==
    [][ \A a \in ActionIds :
          (~(a \in Range(hist.resolved)) /\ a \in Range(hist'.resolved))
          => hist'.resStep[a] = api'.simulationStep ]_vars

\* C39: no promise returned by resetGame is lost: each one is resolved, or its
\* resolve function is still held by resetResolveCallback or by a pending
\* 200 ms timer, so that further steps or timers resolve it.
C39_NoResetAbandoned ==
    \A r \in ResetsCalled :
        \/ ResetResolved(r)
        \/ api.resetResolveCallback = r
        \/ [kind |-> "reset", id |-> r] \in Range(timers)

\* C40: between scheduler operations isExecutingAction is true exactly when
\* actionResolveCallback is set, and while isExecutingAction is false the
\* action queue is empty.
C40_ExecutingIffCallback ==
    /\ api.isExecutingAction <=> (api.actionResolveCallback # 0)
    /\ ~api.isExecutingAction => Len(api.actionQueue) = 0

\* After a resetGame and a resolved action: an action is executing with its
\* callback set while another one waits in the queue.
C40_Witness ==
    /\ hist.resets >= 1
    /\ Len(hist.resolved) >= 1
    /\ api.isExecutingAction
    /\ api.actionResolveCallback # 0
    /\ Len(api.actionQueue) >= 1

============================================================================
